---------------------------- MODULE Spec2Model ----------------------------
(***************************************************************************)
(* many-answers: the multi-provider orchestration of POST /api/ask.        *)
(*                                                                         *)
(* One request is fanned out to the providers openai, claude and gemini.   *)
(* Every credentialed, requested provider gets a job                       *)
(*     runWithRetries(label, taskFactory, 3, tmo).then(write results[p])   *)
(* and the handler answers after  await Promise.all(jobs).                 *)
(*                                                                         *)
(* Node runs the handler, every promise reaction and every timer callback  *)
(* on one event loop.  An action of this module is one event-loop task     *)
(* together with the promise reactions (microtasks) it triggers for the    *)
(* provider it belongs to: the settlement of an adapter call, the resume   *)
(* of `await withTimeout(...)` in attempt(n), and either the start of      *)
(* attempt(n+1) or the `.then` callback that writes results[p].            *)
(*                                                                         *)
(* Spec leaves durations abstract: an armed timer may fire at any moment   *)
(* and the clock `now` does not advance.                                   *)
(*                                                                         *)
(* recordUsage, called by the jobs' callbacks, appends to the usage log,   *)
(* which nothing in the handler reads: the log is not part of this state.  *)
(***************************************************************************)
EXTENDS Integers, Sequences, FiniteSets, TLC

(***************************************************************************)
(* Bounds of the model.                                                    *)
(***************************************************************************)
\* the largest attempt ceiling runWithRetries is exercised with
MaxAttempts == 4
\* how many abandoned adapter calls (their timer has fired) still settle in one run;
\* the others stay in flight for good
MaxLate == 1
\* how many milliseconds the clock of SpecClock runs
MaxNow == 3
\* how many parts the vendor's stream yields at most
MaxParts == 3
\* how many entries SpecUsage records: beyond the capacity of the log
MaxRecorded == 103
\* how many /api/ask requests SpecConcurrent handles at the same time
MaxRequests == 2

(***************************************************************************)
(* Program constants.                                                      *)
(***************************************************************************)
\* the ceiling every /api/ask call site passes: runWithRetries(.., 3, ..)
HttpAttempts == 3
\* DEFAULTS.timeoutMs
DefaultTimeoutMs == 30000
\* the default of runWithRetries' parameter perAttemptTimeoutMs
RetryDefaultTimeoutMs == 5000
\* const MAX_PER = 100_000: the characters of one attachment that are inlined
MaxPer == 100000

Providers == {"openai", "claude", "gemini"}

\* the label each call site hands to runWithRetries
Label(p) ==
  CASE p = "openai" -> "OpenAI"
    [] p = "claude" -> "Claude"
    [] OTHER        -> "Gemini"

\* the environment variable named in a provider's missing-credential text
KeyName(p) ==
  CASE p = "openai" -> "OPENAI_API_KEY"
    [] p = "claude" -> "ANTHROPIC_API_KEY"
    [] OTHER        -> "GEMINI_API_KEY or GOOGLE_API_KEY"

AttemptIdx == 0 .. (MaxAttempts - 1)

(***************************************************************************)
(* Values.  A text is a triple <<words, who, number>>; Undefined is the    *)
(* JavaScript undefined (a field JSON.stringify leaves out).               *)
(***************************************************************************)
Undefined == <<"undefined", "", 0>>

\* the text adapter call n of provider p resolves with
AdapterText(p, n) == <<"answer of", p, n>>

\* the Error adapter call n of provider p rejects with
AdapterError(p, n) == [message |-> <<"rejected by", p, n>>]

\* faulty variant: the message names neither the label nor the timeout
TimeoutErrorBare(label, timeoutMs) == [message |-> <<"timed out", "", 0>>]

\* new Error(`${label} timed out after ${timeoutMs}ms`)
TimeoutError(label, timeoutMs) == [message |-> <<"timed out after", label, timeoutMs>>]

NoError == [message |-> Undefined]

\* String(r.error?.message || r.error)
ErrorText(error) ==
  IF error.message # Undefined THEN error.message ELSE <<"Error", "", 0>>

(***************************************************************************)
(* Promises.                                                               *)
(***************************************************************************)
NoOutcome == [ok |-> FALSE, value |-> Undefined, error |-> NoError]
Pending == [st |-> "pending", v |-> NoOutcome]
Unborn == [st |-> "none", v |-> NoOutcome]
Fulfilled(o) == [st |-> "fulfilled", v |-> o]
Rejected(e) == [st |-> "rejected", v |-> [ok |-> FALSE, value |-> Undefined, error |-> e]]

\* faulty variant: every call of resolve replaces the settlement
PromiseResolveLast(pr, o) == IF pr.st \in {"pending", "fulfilled"} THEN Fulfilled(o) ELSE pr

\* faulty variant: a success replaces the failure the promise was settled with
PromiseResolveRescued(pr, o) ==
  IF pr.st = "pending" \/ (pr.st = "fulfilled" /\ o.ok /\ ~pr.v.ok) THEN Fulfilled(o) ELSE pr

\* resolve(o) of `new Promise((resolve) => ...)`: only the first call settles
PromiseResolve(pr, o) == IF pr.st = "pending" THEN Fulfilled(o) ELSE pr

\* faulty variant: the awaiting caller is resumed by every call of resolve
SettlesAlways(pr, pr2) == TRUE

\* whether a call of resolve settled the promise, i.e. the awaiting caller is resumed
Settles(pr, pr2) == pr2 # pr

VARIABLES
  body,       \* req.body of the request: prompt, providers, timeoutMs, useModelConfig
  context,    \* req.body, the rest: history, histories, modelId, attachments
  hasKey,     \* process.env: which provider credentials are configured
  cfgTimeout, \* config/<provider>.json: the timeoutMs loadProviderConfig() yields
  attempts,   \* the attempt ceiling handed to runWithRetries
  now,        \* Date.now()
  pc,         \* the handler: "idle" -> "awaiting" (at await Promise.all) -> "done"
  res,        \* the HTTP response: status 0 while none is sent
  results,    \* the handler's `results` object: provider -> ProviderOutcome
  job,        \* jobs[]: the promise runWithRetries(..).then(..) of each provider
  startedAt,  \* const startedAt = nowMs() of each provider's job
  tmo,        \* eff.tmo: the per-attempt timeout of each provider
  calls,      \* how often taskFactory() has been invoked, per provider
  op,         \* the adapter promise of attempt n: none, inflight, resolved, rejected
  timer,      \* withTimeout's timer of attempt n: none, armed, fired, cleared
  wrap,       \* the promise withTimeout returned for attempt n
  observed,   \* how often attempt(n) was resumed from `await withTimeout(...)`
  ret,        \* the promise runWithRetries returned
  effectivePrompt, \* const effectivePrompt = buildPromptWithAttachments(prompt, attachments)
  hist,       \* historyOpenAI, historyClaude, historyGemini: pickHist of each provider
  given,      \* the arguments the adapter call of attempt n received: prompt, history
  began,      \* history: the instant the latest attempt of each provider was started
  spent,      \* history: the sum of the durations of each provider's settled attempts
  spc,        \* the handler of /api/stream: "idle", "opening", "streaming", "ended"
  sse,        \* the response of /api/stream: status, headers, events written, ended
  arrived,    \* the parts the vendor's stream has yielded so far
  accumulated, \* let accumulated = '' of /api/stream
  streamStartedAt, \* const startedAt = nowMs() of /api/stream
  creates,    \* how often /api/stream has called client.chat.completions.create
  streamHist, \* const history of /api/stream
  dpc,        \* the handler of /api/draw: "idle", "drawing", "done"
  dres,       \* the response of /api/draw: status 0 while none is sent
  drawStartedAt, \* const startedAt = nowMs() of /api/draw
  settings,   \* req.body, the generation settings: system, temperature, maxTokens, model
  files,      \* config/openai.json and config/gpt5-mini.json: what each sets, if present
  effOpenAI,  \* the arguments the OpenAI task factory passes: eff.sys, eff.temp, eff.maxT
  payload,    \* the payload askOpenAI hands to chat.completions.create
  usageLog,   \* const usageLog = [] of providers.js
  recorded,   \* how many entries were ever recorded; the next entry's id
  usageView,  \* the list the last call of getUsageLog returned, in its caller's hands
  transcript, \* the `history` argument the adapters are called with
  sent,       \* what each adapter, and /api/stream, submits to its vendor
  response,   \* what client.responses.create resolves with
  returned,   \* what askOpenAI returns from a deep-research call
  asked,      \* per invocation of the /api/ask handler: its req.body, once it has arrived
  jobsOf,     \* per invocation: const jobs = [], each provider's job
  callsOf,    \* per invocation: what each provider's adapter was called with
  resultsOf,  \* per invocation: const results = {}
  replied,    \* per invocation: the response it has sent
  argv,       \* index.js main: the parsed command line
  cliPc,      \* index.js main: "idle" -> "awaiting" (at await Promise.all) -> "printed"
  cliOp,      \* index.js main: the adapter promise of each provider
  cliTimer,   \* index.js main: the timer of each provider's withTimeout
  cliWrap,    \* index.js main: the promise each withTimeout returned
  cliCalls,   \* index.js main: how often each adapter was called
  cliJobs,    \* index.js main: const jobs = []
  cliResults, \* index.js main: const results = {}
  printed     \* index.js main: what was written to the console

\* the state of /api/ask and the state of /api/stream
askVars == <<context, cfgTimeout, attempts, pc, res, results, job, startedAt,
             tmo, calls, op, timer, wrap, observed, ret, effectivePrompt, hist, given,
             began, spent>>
streamVars == <<spc, sse, arrived, accumulated, streamStartedAt, creates, streamHist>>
drawVars == <<dpc, dres, drawStartedAt>>
configVars == <<settings, files, effOpenAI, payload>>
usageVars == <<usageLog, recorded, usageView>>
adapterVars == <<transcript, sent, response, returned>>
servedVars == <<asked, jobsOf, callsOf, resultsOf, replied>>
cliVars == <<argv, cliPc, cliOp, cliTimer, cliWrap, cliCalls, cliJobs, cliResults, printed>>

\* the state of the rest of the server, as seen from each endpoint
besideAsk == <<streamVars, drawVars, adapterVars, configVars, usageVars, servedVars, cliVars>>
besideStream == <<askVars, drawVars, adapterVars, configVars, usageVars, servedVars, cliVars>>
besideDraw == <<askVars, streamVars, adapterVars, configVars, usageVars, servedVars, cliVars>>

vars == <<body, hasKey, now, askVars, streamVars, drawVars, adapterVars, configVars, usageVars,
          servedVars, cliVars>>

(***************************************************************************)
(* The request and its environment.                                        *)
(***************************************************************************)
\* prompt values a client can send: a string (its characters), or no string at all
Str(chars) == [type |-> "string", chars |-> chars]
NotSent == [type |-> "undefined", chars |-> <<>>]
ANumber == [type |-> "number", chars |-> <<"7">>]
Prompts == {Str(<<"h", "i">>), Str(<<" ">>), Str(<<>>), NotSent, ANumber}

\* a providers.<name> flag: the boolean true, another truthy value, or absent
Flags == {"true", "1", "undefined"}

\* a timeoutMs the client sends (a finite number) or leaves out
NoNumber == [type |-> "undefined", n |-> 0]
Num(n) == [type |-> "number", n |-> n]

RECURSIVE TrimStart(_)
TrimStart(chars) ==
  IF chars # <<>> /\ Head(chars) = " " THEN TrimStart(Tail(chars)) ELSE chars

RECURSIVE TrimEnd(_)
TrimEnd(chars) ==
  IF chars # <<>> /\ chars[Len(chars)] = " "
  THEN TrimEnd(SubSeq(chars, 1, Len(chars) - 1))
  ELSE chars

\* String.prototype.trim
Trim(chars) == TrimEnd(TrimStart(chars))

\* faulty variant: the prompt is not trimmed before it is tested
PromptMissingUntrimmed(prompt) ==
  \/ prompt.type = "undefined"
  \/ prompt.type # "string"
  \/ prompt.chars = <<>>

\* !prompt || typeof prompt !== 'string' || !prompt.trim()
PromptMissing(prompt) ==
  \/ prompt.type = "undefined"
  \/ prompt.type # "string"
  \/ prompt.chars = <<>>
  \/ Trim(prompt.chars) = <<>>

\* faulty variant: any truthy flag requests the provider
RequestedTruthy(p) == body.providers[p] # "undefined"

\* requested.<p>: providers?.<p> === true
Requested(p) == body.providers[p] = "true"

\* enabled.<p>: requested.<p> && hasKey.<p>
Enabled(p) == Requested(p) /\ hasKey[p]

\* config.timeoutMs: typeof timeoutMs === 'number' ? timeoutMs : DEFAULTS.timeoutMs
ConfigTimeoutMs == IF body.timeoutMs.type = "number" THEN body.timeoutMs.n ELSE DefaultTimeoutMs

\* faulty variant: without a timeoutMs in the request, the default of the retry
\* helper's parameter applies
EffTimeoutHelperDefault(p) ==
  IF body.timeoutMs.type = "number" THEN body.timeoutMs.n ELSE RetryDefaultTimeoutMs

\* eff.tmo.<p>
EffTimeout(p) ==
  IF body.useModelConfig
  THEN IF body.timeoutMs.type = "number" THEN ConfigTimeoutMs ELSE cfgTimeout[p]
  ELSE ConfigTimeoutMs

\* faulty variant: one message for every provider
MissingKeyOutcomeGeneric(p) ==
  [provider |-> p, ok |-> FALSE, text |-> Undefined,
   error |-> <<"Missing", "API key", 0>>, latencyMs |-> 0]

\* the synthetic outcome of a requested provider whose credential is missing
MissingKeyOutcome(p) ==
  [provider |-> p, ok |-> FALSE, text |-> Undefined,
   error |-> <<"Missing", KeyName(p), 0>>, latencyMs |-> 0]

\* faulty variant: the error text is read from a field the error does not have
JobOutcomeNoError(p, r, startedAtP, nowMs) ==
  [provider |-> p, ok |-> r.ok,
   text |-> IF r.ok THEN r.value ELSE Undefined,
   error |-> Undefined,
   latencyMs |-> nowMs - startedAtP]

\* faulty variant: the instant of settlement is reported, not the time taken
JobOutcomeSinceEpoch(p, r, startedAtP, nowMs) ==
  [provider |-> p, ok |-> r.ok,
   text |-> IF r.ok THEN r.value ELSE Undefined,
   error |-> IF r.ok THEN Undefined ELSE ErrorText(r.error),
   latencyMs |-> nowMs]

\* faulty variant: the operands of the latency subtraction are swapped
JobOutcomeBackwards(p, r, startedAtP, nowMs) ==
  [provider |-> p, ok |-> r.ok,
   text |-> IF r.ok THEN r.value ELSE Undefined,
   error |-> IF r.ok THEN Undefined ELSE ErrorText(r.error),
   latencyMs |-> startedAtP - nowMs]

\* the outcome the `.then((r) => ...)` callback of a job stores in results[p]
JobOutcome(p, r, startedAtP, nowMs) ==
  [provider |-> p, ok |-> r.ok,
   text |-> IF r.ok THEN r.value ELSE Undefined,
   error |-> IF r.ok THEN Undefined ELSE ErrorText(r.error),
   latencyMs |-> nowMs - startedAtP]

(***************************************************************************)
(* The conversational context of the request: history, histories, modelId. *)
(* A JSON value is undefined (the field is absent), null, an array with    *)
(* its items, or something else (a string, a number, an object).           *)
(***************************************************************************)
JUndefined == [kind |-> "undefined", items |-> <<>>]
JNull == [kind |-> "null", items |-> <<>>]
JOther == [kind |-> "other", items |-> <<>>]
JArray(items) == [kind |-> "array", items |-> items]

\* Array.isArray(v)
IsArray(v) == v.kind = "array"

\* a modelId the client sends: a string, something that is no string, or none
ModelId(key) == [type |-> "string", key |-> key]
NoModelId == [type |-> "undefined", key |-> ""]
NumericModelId == [type |-> "number", key |-> ""]

\* the keys a histories object of the model may hold
HistKeys == {"openai", "claude", "model1", "model2", "model3"}
LegacySlots == <<"model1", "model2", "model3">>

\* no histories: every lookup yields undefined
NoHistories == [k \in HistKeys |-> JUndefined]

\* histories?.[key]
HistoriesAt(key) ==
  IF key \in DOMAIN context.histories THEN context.histories[key] ELSE JUndefined

\* faulty variant: the slots are concatenated from the last to the first
CombinedReversed ==
  LET part(k) == IF IsArray(HistoriesAt(k)) THEN HistoriesAt(k).items ELSE <<>>
  IN part(LegacySlots[3]) \o part(LegacySlots[2]) \o part(LegacySlots[1])

\* ['model1','model2','model3'].forEach(k => { if (Array.isArray(histories?.[k]))
\*    combined.push(...histories[k]) })
Combined ==
  LET part(k) == IF IsArray(HistoriesAt(k)) THEN HistoriesAt(k).items ELSE <<>>
  IN part(LegacySlots[1]) \o part(LegacySlots[2]) \o part(LegacySlots[3])

\* faulty variant: the card named by modelId is preferred to the provider's own key
PickHistCardFirst(providerKey) ==
  IF context.modelId.type = "string" /\ IsArray(HistoriesAt(context.modelId.key))
  THEN HistoriesAt(context.modelId.key)
  ELSE IF IsArray(HistoriesAt(providerKey))
  THEN HistoriesAt(providerKey)
  ELSE IF \E i \in 1 .. 3 : IsArray(HistoriesAt(LegacySlots[i]))
  THEN JArray(Combined)
  ELSE IF context.history.kind \in {"undefined", "null"} THEN JArray(<<>>)
  ELSE context.history

\* function pickHist(providerKey); its last line is `return history ?? []`
PickHist(providerKey) ==
  IF IsArray(HistoriesAt(providerKey))
  THEN HistoriesAt(providerKey)
  ELSE IF context.modelId.type = "string" /\ IsArray(HistoriesAt(context.modelId.key))
  THEN HistoriesAt(context.modelId.key)
  ELSE IF \E i \in 1 .. 3 : IsArray(HistoriesAt(LegacySlots[i]))
  THEN JArray(Combined)
  ELSE IF context.history.kind \in {"undefined", "null"} THEN JArray(<<>>)
  ELSE context.history

(***************************************************************************)
(* Attachments and the effective prompt.  A text is a sequence of pieces:  *)
(* a literal, a number printed in decimal, the characters of the request's *)
(* prompt, or the first `len` characters of an uploaded content.           *)
(***************************************************************************)
Lit(s) == [kind |-> "lit", s |-> s, n |-> 0, chars |-> <<>>, of |-> "", len |-> 0]
Dec(n) == [kind |-> "number", s |-> "", n |-> n, chars |-> <<>>, of |-> "", len |-> 0]
PromptChars(chars) ==
  [kind |-> "prompt", s |-> "", n |-> 0, chars |-> chars, of |-> "", len |-> 0]
ContentChars(of, len) ==
  [kind |-> "content", s |-> "", n |-> 0, chars |-> <<>>, of |-> of, len |-> len]

\* the content of an attachment: the string `of`, `len` characters long, or no string
Content(of, len) == [type |-> "string", of |-> of, len |-> len]
NoContent == [type |-> "undefined", of |-> "", len |-> 0]

\* an attachment; an empty name or type stands for a field the client left out
Attachment(name, type, size, content) ==
  [name |-> name, type |-> type, size |-> size, content |-> content]

\* content.slice(0, k)
Slice(content, k) == [content EXCEPT !.len = IF content.len < k THEN content.len ELSE k]

\* faulty variant: a content longer than MAX_PER is inlined whole, under the note
AttachmentLineUncut(a, i) ==
  LET content == IF a.content.type = "string" THEN a.content ELSE Content("", 0)
      note == IF content.len > MaxPer THEN <<Lit(" [truncated]")>> ELSE <<>>
      name == IF a.name # "" THEN <<Lit(a.name)>> ELSE <<Lit("file_"), Dec(i + 1)>>
      type == IF a.type # "" THEN Lit(a.type) ELSE Lit("text/plain")
  IN <<Lit("\n["), Dec(i + 1), Lit("] ")>> \o name \o
     <<Lit(" ("), type, Lit(", "), Dec(a.size), Lit(" bytes)")>> \o note \o
     <<Lit(":\n"), ContentChars(content.of, content.len)>>

\* the line of attachment a, the i-th of the request counted from 0:
\*   `\n[${i+1}] ${name} (${type}, ${size} bytes)${note}:\n${content}`
AttachmentLine(a, i) ==
  LET content == IF a.content.type = "string" THEN a.content ELSE Content("", 0)
      truncated == content.len > MaxPer
      kept == IF truncated THEN Slice(content, MaxPer) ELSE content
      note == IF truncated THEN <<Lit(" [truncated]")>> ELSE <<>>
      name == IF a.name # "" THEN <<Lit(a.name)>> ELSE <<Lit("file_"), Dec(i + 1)>>
      type == IF a.type # "" THEN Lit(a.type) ELSE Lit("text/plain")
  IN <<Lit("\n["), Dec(i + 1), Lit("] ")>> \o name \o
     <<Lit(" ("), type, Lit(", "), Dec(a.size), Lit(" bytes)")>> \o note \o
     <<Lit(":\n"), ContentChars(kept.of, kept.len)>>

\* lines.join('\n')
RECURSIVE Join(_)
Join(lines) ==
  IF lines = <<>> THEN <<>>
  ELSE IF Len(lines) = 1 THEN lines[1]
  ELSE lines[1] \o <<Lit("\n")>> \o Join(Tail(lines))

\* function buildPromptWithAttachments(p, atts)
BuildPromptWithAttachments(p, atts) ==
  IF atts.kind # "array" \/ atts.items = <<>> THEN <<PromptChars(p.chars)>>
  ELSE Join(<<<<Lit("Attachments:")>>>>
            \o [i \in 1 .. Len(atts.items) |-> AttachmentLine(atts.items[i], i - 1)]
            \o << <<Lit("\n---\n")>>, <<PromptChars(p.chars)>> >>)

\* no effective prompt yet
NotBuilt == <<>>

\* a request without history, histories, modelId and attachments
NoContext ==
  [history |-> JUndefined, histories |-> NoHistories, modelId |-> NoModelId,
   attachments |-> JUndefined]

\* faulty variant: the factory hands over the prompt of the request as it came
AdapterArgsRawPrompt(prompt, history) ==
  [called |-> TRUE, prompt |-> <<PromptChars(body.prompt.chars)>>, history |-> history]

\* what a taskFactory hands to its adapter: { prompt: effectivePrompt, history: history<P>, .. }
AdapterArgs(prompt, history) == [called |-> TRUE, prompt |-> prompt, history |-> history]
NotCalled == [called |-> FALSE, prompt |-> NotBuilt, history |-> JUndefined]

(***************************************************************************)
(* The responses of /api/draw.  A response body is {error}, or             *)
(* {ok: true, image, latencyMs}, or {ok: false, error}; ok is "absent"     *)
(* when the body has no such field.                                        *)
(***************************************************************************)
NoDrawResponse ==
  [status |-> 0, ok |-> "absent", image |-> <<>>, error |-> "", timed |-> FALSE,
   latencyMs |-> 0]

\* res.status(400).json({ error: 'Missing prompt' })
DrawRefused ==
  [status |-> 400, ok |-> "absent", image |-> <<>>, error |-> "Missing prompt",
   timed |-> FALSE, latencyMs |-> 0]

\* res.json({ ok: true, image: dataUrl, latencyMs: nowMs() - startedAt })
DrawOk(dataUrl, latencyMs) ==
  [status |-> 200, ok |-> "true", image |-> dataUrl, error |-> "", timed |-> TRUE,
   latencyMs |-> latencyMs]

\* the catch block: res.json({ ok: false, error: String(err?.message || err) })
DrawFailed(message) ==
  [status |-> 200, ok |-> "false", image |-> <<>>, error |-> message, timed |-> FALSE,
   latencyMs |-> 0]

\* `data:image/png;base64,${b64}`
DataUrl(b64) == <<"data:image/png;base64,", b64>>

(***************************************************************************)
(* Generation settings: the request's system, temperature, maxTokens and   *)
(* model, the config files, and what reaches the OpenAI vendor call.  A    *)
(* setting is a value (written as a string) or is absent.  Request values, *)
(* where present, are well-typed: a non-blank system, finite numbers.      *)
(***************************************************************************)
Val(v) == [has |-> TRUE, v |-> v]
NoVal == [has |-> FALSE, v |-> ""]

SettingNames == {"system", "temperature", "maxTokens"}

NoSettings ==
  [system |-> NoVal, temperature |-> NoVal, maxTokens |-> NoVal, model |-> NoVal,
   maxCompletionTokens |-> NoVal]

\* a config file: whether it exists (and parses), and the settings it holds
ConfigFile(system, temperature, maxTokens) ==
  [present |-> TRUE, system |-> system, temperature |-> temperature,
   maxTokens |-> maxTokens]
NoFile == [present |-> FALSE, system |-> NoVal, temperature |-> NoVal, maxTokens |-> NoVal]
NoFiles == [openai |-> NoFile, gpt5mini |-> NoFile]

\* const base of config.js: defaultSystem, DEFAULTS.temperature, DEFAULTS.maxTokens
BaseConfig ==
  [system |-> Val("You are a helpful assistant. Be concise and direct."),
   temperature |-> Val("0.2"),
   maxTokens |-> Val("1024")]

\* { ...base, ...(readJsonSafe(file) || {}) }
Merge(base, file) ==
  [f \in SettingNames |-> IF file.present /\ file[f].has THEN file[f] ELSE base[f]]

\* loadProviderConfig().openai
LoadProviderConfig == Merge(BaseConfig, files.openai)

\* loadModelSpecificConfig(model)
LoadModelSpecificConfig(model) ==
  IF model \in {"gpt-5-mini", "gpt-5-mini-2025-08-07"} /\ files.gpt5mini.present
  THEN Merge(BaseConfig, files.gpt5mini)
  ELSE Merge(BaseConfig, files.openai)

\* config.models.openai: models?.openai || DEFAULTS.openaiModel
ConfigModel == IF settings.model.has THEN settings.model.v ELSE "gpt-5-mini-2025-08-07"

\* config.system, config.temperature, config.maxTokens
ConfigSetting(f) ==
  IF f = "system" THEN settings.system
  ELSE IF settings[f].has THEN settings[f]
  ELSE BaseConfig[f]

\* eff.sys.openai, eff.temp.openai, eff.maxT.openai
EffSetting(f) ==
  IF body.useModelConfig
  THEN IF settings[f].has THEN ConfigSetting(f) ELSE LoadProviderConfig[f]
  ELSE ConfigSetting(f)

\* the arguments of askOpenAI({ system, model, temperature, maxTokens, useModelConfig, .. })
NoArgs ==
  [called |-> FALSE, system |-> NoVal, temperature |-> NoVal, maxTokens |-> NoVal,
   model |-> "", useModelConfig |-> FALSE]
OpenAIArgs ==
  [called |-> TRUE, system |-> EffSetting("system"),
   temperature |-> EffSetting("temperature"), maxTokens |-> EffSetting("maxTokens"),
   model |-> ConfigModel, useModelConfig |-> body.useModelConfig]

\* /gpt-5/i.test(model) || /-2025-/.test(model), over the models of this module
IsGpt5(model) ==
  model \in {"gpt-5-mini", "gpt-5-mini-2025-08-07", "gpt-5", "GPT-5", "gpt-4.1-2025-04-14"}

\* askOpenAI from its entry to the payload of chat.completions.create
NoPayload ==
  [built |-> FALSE, api |-> "", model |-> "", system |-> NoVal, temperature |-> NoVal,
   max_tokens |-> NoVal, max_completion_tokens |-> NoVal]

\* /deep-research/i.test(model || ''), over the models of this module
UsesResponsesApi(model) == model \in {"o4-mini-deep-research", "O3-Deep-Research"}

OpenAIPayload(args) ==
  LET modelConfig == LoadModelSpecificConfig(args.model)
      \* system = system || modelConfig.system, and so on
      system == IF args.useModelConfig /\ ~args.system.has
                THEN modelConfig.system ELSE args.system
      temperature == IF args.useModelConfig /\ ~args.temperature.has
                     THEN modelConfig.temperature ELSE args.temperature
      maxTokens == IF args.useModelConfig /\ ~args.maxTokens.has
                   THEN modelConfig.maxTokens ELSE args.maxTokens
      \* no caller passes maxCompletionTokens
      maxCompletionTokens == IF args.useModelConfig THEN modelConfig.maxTokens ELSE NoVal
  IN IF UsesResponsesApi(args.model)
     THEN \* { model, input, tools }: the system instruction is a part of the input
          [built |-> TRUE, api |-> "responses.create", model |-> args.model,
           system |-> system, temperature |-> NoVal, max_tokens |-> NoVal,
           max_completion_tokens |-> NoVal]
     ELSE
     [built |-> TRUE,
      api |-> "chat.completions.create",
      model |-> args.model,
      system |-> system,
      temperature |-> IF ~IsGpt5(args.model) THEN temperature ELSE NoVal,
      max_tokens |-> IF IsGpt5(args.model) THEN NoVal
                     ELSE IF maxTokens.has THEN maxTokens ELSE maxCompletionTokens,
      max_completion_tokens |-> IF ~IsGpt5(args.model) THEN NoVal
                                ELSE IF maxCompletionTokens.has THEN maxCompletionTokens
                                ELSE maxTokens]

(***************************************************************************)
(* The transcript an adapter is given and the messages it submits.  A turn *)
(* of the transcript has a role (a string, or none) and a content (a text, *)
(* something that is no string, or none); a member of the transcript that  *)
(* is null has neither.                                                    *)
(***************************************************************************)
Vendors == {"openai", "claude", "gemini", "stream"}

\* a text is a sequence of pieces, as the effective prompt is; '' has no piece
Text(s) == [type |-> "string", text |-> IF s = "" THEN <<>> ELSE <<Lit(s)>>]
NoText == [type |-> "undefined", text |-> <<>>]
NumericContent == [type |-> "number", text |-> <<Dec(7)>>]

Turn(role, content) == [role |-> role, content |-> content]
NullTurn == Turn("undefined", NoText)

\* faulty variant: whatever the content is, it is sent as a text
TurnContentCoerced(m) == m.content.text

\* typeof m?.content === 'string' ? m.content : ''
TurnContent(m) == IF m.content.type = "string" THEN m.content.text ELSE <<>>

\* if (content): the turn is sent
HasContent(m) == TurnContent(m) # <<>>

\* m?.role === 'assistant' ? 'assistant' : m?.role === 'system' ? 'system' : 'user'
OpenAIRole(role) ==
  IF role = "assistant" THEN "assistant" ELSE IF role = "system" THEN "system" ELSE "user"

\* m?.role === 'assistant' ? 'assistant' : 'user'
ClaudeRole(role) == IF role = "assistant" THEN "assistant" ELSE "user"

\* faulty variant: the generic label is handed on to Gemini
GeminiRoleGeneric(role) == IF role = "assistant" THEN "assistant" ELSE "user"

\* m?.role === 'assistant' ? 'model' : 'user'
GeminiRole(role) == IF role = "assistant" THEN "model" ELSE "user"

VendorRole(vendor, role) ==
  CASE vendor = "claude" -> ClaudeRole(role)
    [] vendor = "gemini" -> GeminiRole(role)
    [] OTHER             -> OpenAIRole(role)

Message(role, content) == [role |-> role, content |-> content]

\* if (Array.isArray(history)) for (const m of history) { .. if (content) push({ role, content }) }
Turns(vendor, history) ==
  IF ~IsArray(history) THEN <<>>
  ELSE LET kept == SelectSeq(history.items, HasContent)
       IN [i \in 1 .. Len(kept) |->
             Message(VendorRole(vendor, kept[i].role), TurnContent(kept[i]))]

\* the messages (Gemini: contents) an adapter builds: for OpenAI and the streaming
\* path the system instruction, if any, comes first; the prompt comes last
Messages(vendor, system, history, prompt) ==
  (IF vendor \in {"openai", "stream"} /\ system.has
   THEN <<Message("system", <<Lit(system.v)>>)>> ELSE <<>>)
    \o Turns(vendor, history)
    \o <<Message("user", prompt)>>

\* the payload /api/stream builds: isGpt5 is told from `model || ''`, the model sent
\* is `model || DEFAULTS.openaiModel`
StreamPayload ==
  LET isGpt5 == IsGpt5(IF settings.model.has THEN settings.model.v ELSE "")
  IN [built |-> TRUE,
      api |-> "chat.completions.create",
      model |-> IF settings.model.has THEN settings.model.v ELSE "gpt-5-mini-2025-08-07",
      system |-> settings.system,
      temperature |-> IF ~isGpt5 THEN settings.temperature ELSE NoVal,
      max_tokens |-> IF isGpt5 THEN NoVal
                     ELSE IF settings.maxTokens.has THEN settings.maxTokens
                     ELSE settings.maxCompletionTokens,
      max_completion_tokens |-> IF ~isGpt5 THEN NoVal
                                ELSE IF settings.maxCompletionTokens.has
                                THEN settings.maxCompletionTokens
                                ELSE settings.maxTokens]

\* the payload a vendor call carries; the settings of Claude and Gemini are not modelled
VendorPayload(vendor) ==
  CASE vendor = "openai" -> OpenAIPayload(OpenAIArgs)
    [] vendor = "stream" -> StreamPayload
    [] OTHER             -> NoPayload

\* the system instruction an adapter works with
VendorSystem(vendor) ==
  IF vendor = "openai" THEN OpenAIPayload(OpenAIArgs).system ELSE settings.system

\* parts.join('\n\n')
RECURSIVE JoinParts(_)
JoinParts(parts) ==
  IF parts = <<>> THEN <<>>
  ELSE IF Len(parts) = 1 THEN parts[1]
  ELSE parts[1] \o <<Lit("\n\n")>> \o JoinParts(Tail(parts))

\* m?.role === 'assistant' ? 'Assistant' : m?.role === 'system' ? 'System' : 'User'
ResearchRole(role) ==
  IF role = "assistant" THEN "Assistant" ELSE IF role = "system" THEN "System" ELSE "User"

\* const input: the planner block, the system instruction, the turns, the prompt
ResearchInput(system, history, prompt) ==
  LET kept == IF IsArray(history) THEN SelectSeq(history.items, HasContent) ELSE <<>>
  IN JoinParts(
       << <<Lit("System: "), Lit("DEEP_RESEARCH_PLANNER_INSTRUCTIONS")>> >>
         \o (IF system.has THEN << <<Lit("System: "), Lit(system.v)>> >> ELSE <<>>)
         \o [i \in 1 .. Len(kept) |->
               <<Lit(ResearchRole(kept[i].role)), Lit(": ")>> \o TurnContent(kept[i])]
         \o << <<Lit("User: ")>> \o prompt >>)

NotSubmitted == [built |-> FALSE, messages |-> <<>>, input |-> <<>>, payload |-> NoPayload]
Built(messages, input, params) ==
  [built |-> TRUE, messages |-> messages, input |-> input, payload |-> params]

\* what a vendor call of the adapter submits: the message list, or the one input string
Submission(vendor, history, prompt) ==
  IF VendorPayload(vendor).api = "responses.create"
  THEN Built(<<>>, ResearchInput(VendorSystem(vendor), history, prompt),
             VendorPayload(vendor))
  ELSE Built(Messages(vendor, VendorSystem(vendor), history, prompt), <<>>,
             VendorPayload(vendor))

(***************************************************************************)
(* What responses.create resolves with: output_text, and output, a list of *)
(* items that carry a text, or a content list of fragments with a text.    *)
(***************************************************************************)
Fragment(text) == [text |-> text]
OutputItem(text, content) == [text |-> text, content |-> content]
Response(output_text, output) == [output_text |-> output_text, output |-> output]
NoResponse == Response(NoText, JUndefined)

NotReturned == [done |-> FALSE, text |-> <<>>]

\* item.content.map((c) => c?.text || '').join('')
RECURSIVE FragmentsText(_)
FragmentsText(content) ==
  IF content = <<>> THEN <<>>
  ELSE (IF content[1].text.type \in {"string", "number"} THEN content[1].text.text ELSE <<>>)
         \o FragmentsText(Tail(content))

\* for (const item of out) { if (typeof item?.text === 'string') combined += item.text;
\*   else if (Array.isArray(item?.content)) combined += item.content.map(..).join('') }
RECURSIVE CombinedOutput(_)
CombinedOutput(out) ==
  IF out = <<>> THEN <<>>
  ELSE (IF out[1].text.type = "string" THEN out[1].text.text
        ELSE IF IsArray(out[1].content) THEN FragmentsText(out[1].content.items)
        ELSE <<>>)
         \o CombinedOutput(Tail(out))

\* faulty variant: the stitched output is preferred to output_text
ResearchTextStitched(r) ==
  IF IsArray(r.output) /\ CombinedOutput(r.output.items) # <<>> THEN CombinedOutput(r.output.items)
  ELSE IF r.output_text.type = "string" THEN r.output_text.text
  ELSE <<>>

\* the text askOpenAI returns from a responses.create call
ResearchText(r) ==
  IF r.output_text.type = "string" /\ r.output_text.text # <<>> THEN r.output_text.text
  ELSE IF IsArray(r.output) THEN CombinedOutput(r.output.items)
  ELSE <<>>

(***************************************************************************)
(* The usage log.  An entry is known by its id; the ids of this module are *)
(* the numbers of the recordings, 0, 1, 2, ...                             *)
(***************************************************************************)
UsageLogMax == 100

\* while (usageLog.length > USAGE_LOG_MAX) usageLog.shift()
RECURSIVE ShiftWhileOver(_)
ShiftWhileOver(log) == IF Len(log) > UsageLogMax THEN ShiftWhileOver(Tail(log)) ELSE log

\* recordUsage(entry): the log afterwards
RecordUsage(log, entry) == ShiftWhileOver(Append(log, entry))

\* Array.prototype.reverse
Reverse(list) == [i \in 1 .. Len(list) |-> list[Len(list) + 1 - i]]

\* faulty variant: usageLog.reverse(), in place, and the log itself is handed out
GetUsageLogInPlace(log) == [entries |-> Reverse(log), log |-> Reverse(log), shared |-> TRUE]

\* getUsageLog(): usageLog.slice().reverse(): a fresh array, the log as it was
GetUsageLog(log) == [entries |-> Reverse(log), log |-> log, shared |-> FALSE]

\* no list was handed out yet
NoView == [entries |-> <<>>, shared |-> FALSE]

(***************************************************************************)
(* Several invocations of the /api/ask handler at a time.  Each has its    *)
(* own req.body, and its own `jobs` and `results`, which the callbacks of  *)
(* its jobs close over.                                                    *)
(***************************************************************************)
Invocations == 1 .. MaxRequests

NotAsked == [arrived |-> FALSE, prompt |-> NotSent, history |-> JUndefined,
             providers |-> [p \in Providers |-> "undefined"]]
NotReplied == [status |-> 0, json |-> <<>>, error |-> ""]

\* what the adapter call of invocation r resolves with, and rejects with
AnswerTo(p, r) == <<"answer to", p, r>>
RejectionTo(p, r) == [message |-> <<"rejected", p, r>>]

(***************************************************************************)
(* The command line of index.js: the prompt and the three provider flags.  *)
(***************************************************************************)
Argv(prompt, flags) == [prompt |-> prompt, flags |-> flags]
NoArgv == Argv(NotSent, [p \in Providers |-> FALSE])
NotPrinted == [done |-> FALSE, json |-> <<>>]

\* faulty variant: a provider is started on its flag alone
CliStartsUnchecked(a, p) == a.flags[p]

\* if (argv.<p> && process.env.<KEY>)
CliStarts(a, p) == a.flags[p] /\ hasKey[p]

(***************************************************************************)
(* Initial states: the request has arrived, nothing has run.               *)
(***************************************************************************)
InitRequest(Bodies, Contexts, Keys, Cfgs, Ceilings) ==
  /\ body \in Bodies
  /\ context \in Contexts
  /\ hasKey \in Keys
  /\ cfgTimeout \in Cfgs
  /\ attempts \in Ceilings
  /\ now = 0
  /\ pc = "idle"
  /\ res = [status |-> 0, json |-> <<>>, error |-> ""]
  /\ results = <<>>
  /\ job = [p \in Providers |-> "none"]
  /\ startedAt = [p \in Providers |-> 0]
  /\ tmo = [p \in Providers |-> 0]
  /\ calls = [p \in Providers |-> 0]
  /\ op = [p \in Providers |-> [n \in AttemptIdx |-> "none"]]
  /\ timer = [p \in Providers |-> [n \in AttemptIdx |-> "none"]]
  /\ wrap = [p \in Providers |-> [n \in AttemptIdx |-> Unborn]]
  /\ observed = [p \in Providers |-> [n \in AttemptIdx |-> 0]]
  /\ ret = [p \in Providers |-> Unborn]
  /\ effectivePrompt = NotBuilt
  /\ hist = [p \in Providers |-> JUndefined]
  /\ given = [p \in Providers |-> [n \in AttemptIdx |-> NotCalled]]
  /\ began = [p \in Providers |-> 0]
  /\ spent = [p \in Providers |-> 0]
  /\ spc = "idle"
  /\ sse = [status |-> 0, headers |-> FALSE, events |-> <<>>, ended |-> FALSE]
  /\ arrived = <<>>
  /\ accumulated = <<>>
  /\ streamStartedAt = 0
  /\ creates = 0
  /\ streamHist = JUndefined
  /\ dpc = "idle"
  /\ dres = NoDrawResponse
  /\ drawStartedAt = 0
  /\ effOpenAI = NoArgs
  /\ payload = NoPayload
  /\ usageLog = <<>>
  /\ recorded = 0
  /\ usageView = NoView
  /\ sent = [v \in Vendors |-> NotSubmitted]
  /\ returned = NotReturned
  /\ asked = [r \in Invocations |-> NotAsked]
  /\ jobsOf = [r \in Invocations |-> [p \in Providers |-> "none"]]
  /\ callsOf = [r \in Invocations |-> [p \in Providers |-> NotCalled]]
  /\ resultsOf = [r \in Invocations |-> <<>>]
  /\ replied = [r \in Invocations |-> NotReplied]
  /\ argv = NoArgv
  /\ cliPc = "idle"
  /\ cliOp = [p \in Providers |-> "none"]
  /\ cliTimer = [p \in Providers |-> "none"]
  /\ cliWrap = [p \in Providers |-> Unborn]
  /\ cliCalls = [p \in Providers |-> 0]
  /\ cliJobs = [p \in Providers |-> "none"]
  /\ cliResults = <<>>
  /\ printed = NotPrinted

\* a request without generation settings, on a server without config files
InitAll(Bodies, Contexts, Keys, Cfgs, Ceilings) ==
  /\ InitRequest(Bodies, Contexts, Keys, Cfgs, Ceilings)
  /\ settings = NoSettings
  /\ files = NoFiles
  /\ transcript = JUndefined
  /\ response = NoResponse

\* a request that carries no history, no histories, no modelId and no attachments
InitWith(Bodies, Keys, Cfgs, Ceilings) ==
  InitAll(Bodies, {NoContext}, Keys, Cfgs, Ceilings)

\* every request to /api/ask with the default timeout and no config files in play
Init ==
  InitWith([prompt : Prompts, providers : [Providers -> Flags],
            timeoutMs : {NoNumber}, useModelConfig : {FALSE}],
           [Providers -> BOOLEAN],
           {[p \in Providers |-> DefaultTimeoutMs]},
           {HttpAttempts})

(***************************************************************************)
(* app.post('/api/ask'): the synchronous part of the handler, up to        *)
(* `await Promise.all(jobs)`.  Each enabled provider's job is created,     *)
(* which runs attempt(0) up to its await: taskFactory() is called and      *)
(* withTimeout arms its timer.                                             *)
(***************************************************************************)
Ask ==
  /\ pc = "idle"
  /\ IF PromptMissing(body.prompt)
     THEN /\ res' = [status |-> 400, json |-> <<>>, error |-> "Missing prompt"]
          /\ pc' = "done"
          /\ UNCHANGED <<results, job, startedAt, tmo, calls, op, timer, wrap, ret,
                         effectivePrompt, hist, given, began, spent, usageLog, recorded>>
     ELSE /\ effectivePrompt' = BuildPromptWithAttachments(body.prompt, context.attachments)
          /\ hist' = [p \in Providers |-> PickHist(p)]
          /\ results' = [p \in {q \in Providers : ~hasKey[q] /\ Requested(q)}
                           |-> MissingKeyOutcome(p)]
          /\ job' = [p \in Providers |->
                       IF ~(~hasKey[p] /\ Requested(p)) /\ Enabled(p) THEN "pending" ELSE "none"]
          /\ startedAt' = [p \in Providers |-> IF job'[p] = "pending" THEN now ELSE 0]
          /\ tmo' = [p \in Providers |-> IF job'[p] = "pending" THEN EffTimeout(p) ELSE 0]
          /\ calls' = [p \in Providers |-> IF job'[p] = "pending" THEN 1 ELSE 0]
          /\ op' = [p \in Providers |-> [n \in AttemptIdx |->
                       IF job'[p] = "pending" /\ n = 0 THEN "inflight" ELSE "none"]]
          /\ timer' = [p \in Providers |-> [n \in AttemptIdx |->
                       IF job'[p] = "pending" /\ n = 0 THEN "armed" ELSE "none"]]
          /\ wrap' = [p \in Providers |-> [n \in AttemptIdx |->
                       IF job'[p] = "pending" /\ n = 0 THEN Pending ELSE Unborn]]
          /\ ret' = [p \in Providers |-> IF job'[p] = "pending" THEN Pending ELSE Unborn]
          /\ given' = [p \in Providers |-> [n \in AttemptIdx |->
                       IF job'[p] = "pending" /\ n = 0
                       THEN AdapterArgs(effectivePrompt', hist'[p]) ELSE NotCalled]]
          /\ began' = startedAt'
          /\ spent' = [p \in Providers |-> 0]
          \* askOpenAI records the vendor call it is about to make
          /\ IF job'["openai"] = "pending"
             THEN /\ usageLog' = RecordUsage(usageLog, recorded)
                  /\ recorded' = recorded + 1
             ELSE UNCHANGED <<usageLog, recorded>>
          /\ pc' = "awaiting"
          /\ UNCHANGED res
  /\ UNCHANGED <<body, context, hasKey, cfgTimeout, attempts, now, observed>>
  /\ UNCHANGED <<streamVars, drawVars, cliVars, servedVars, adapterVars, configVars, usageView>>

(***************************************************************************)
(* withTimeout(promise, timeoutMs, label) and runWithRetries.              *)
(***************************************************************************)
\* faulty variant: the timer callback reports success
OnTimeoutOk(label, timeoutMs) ==
  [ok |-> TRUE, value |-> Undefined, error |-> TimeoutError(label, timeoutMs)]

\* the timer callback: resolve({ ok: false, error: new Error(`... timed out ...`) })
OnTimeout(label, timeoutMs) ==
  [ok |-> FALSE, value |-> Undefined, error |-> TimeoutError(label, timeoutMs)]

\* promise.then((value) => { clearTimeout(timer); resolve({ ok: true, value }) })
OnResolved(value) == [ok |-> TRUE, value |-> value, error |-> NoError]

\* .catch((error) => { clearTimeout(timer); resolve({ ok: false, error }) })
OnRejected(error) == [ok |-> FALSE, value |-> Undefined, error |-> error]

\* faulty variant: the timer is left armed
ClearTimeoutForgotten(t) == t

\* clearTimeout(timer): an armed timer will not fire; a fired one is left as it is
ClearTimeout(t) == IF t = "armed" THEN "cleared" ELSE t

\* faulty variant: one slot shared by all providers
StoreShared(rs, p, outcome) == [q \in DOMAIN rs \cup {p} |-> outcome]

\* results[name] = outcome
Store(rs, p, outcome) == (p :> outcome) @@ rs

\* faulty variant: results is one object of the module
StoreForAll(all, r, p, outcome) == [q \in DOMAIN all |-> Store(all[q], p, outcome)]

\* results.<p> = {...} in a job's callback: `results` is the invocation's own
StoreFor(all, r, p, outcome) == [all EXCEPT ![r] = Store(@, p, outcome)]

\* faulty variant: an authentication failure is final
AttemptNextAuthFinal(result, n, ceiling) ==
  IF result.ok THEN "return"
  ELSE IF n + 1 >= ceiling \/ result.error.message[1] = "authentication failed" THEN "return"
  ELSE "retry"

\* faulty variant: the last failure is thrown instead of returned
AttemptNextThrows(result, n, ceiling) ==
  IF result.ok THEN "return"
  ELSE IF n + 1 >= ceiling THEN "throw"
  ELSE "retry"

\* faulty variant: one attempt too many
AttemptNextOffByOne(result, n, ceiling) ==
  IF result.ok THEN "return"
  ELSE IF n >= ceiling THEN "return"
  ELSE "retry"

\* attempt(n) after `result = await withTimeout(...)`: return the result, or go on
\* with attempt(n + 1)
AttemptNext(result, n, ceiling) ==
  IF result.ok THEN "return"
  ELSE IF n + 1 >= ceiling THEN "return"
  ELSE "retry"

(***************************************************************************)
(* Settle(p, n, o, opNow, timerNow): one event of attempt n of provider p  *)
(* calls resolve(o) on the promise withTimeout returned.  If that settles  *)
(* the promise, attempt(n) is resumed: it returns (runWithRetries settles  *)
(* and the job's `.then` callback stores results[p]) or it starts          *)
(* attempt(n + 1): a fresh adapter call and a fresh timer.                 *)
(***************************************************************************)
Settle(p, n, o, opNow, timerNow) ==
  LET w2 == PromiseResolve(wrap[p][n], o)
      resumed == Settles(wrap[p][n], w2)
      next == IF ~resumed THEN "none"
              ELSE IF w2.st = "rejected" THEN "throw"
              ELSE AttemptNext(w2.v, n, attempts)
      retry == next = "retry" /\ n + 1 \in AttemptIdx
      ret2 == CASE next = "return" -> PromiseResolve(ret[p], w2.v)
                [] next = "throw"  -> IF ret[p].st = "pending" THEN Rejected(w2.v.error) ELSE ret[p]
                [] OTHER           -> ret[p]
      done == Settles(ret[p], ret2)
  IN
  /\ wrap' = [wrap EXCEPT ![p] = [i \in AttemptIdx |->
                IF i = n THEN w2 ELSE IF retry /\ i = n + 1 THEN Pending ELSE wrap[p][i]]]
  /\ op' = [op EXCEPT ![p] = [i \in AttemptIdx |->
                IF i = n THEN opNow ELSE IF retry /\ i = n + 1 THEN "inflight" ELSE op[p][i]]]
  /\ timer' = [timer EXCEPT ![p] = [i \in AttemptIdx |->
                IF i = n THEN timerNow ELSE IF retry /\ i = n + 1 THEN "armed" ELSE timer[p][i]]]
  /\ given' = [given EXCEPT ![p] = [i \in AttemptIdx |->
                IF retry /\ i = n + 1 THEN AdapterArgs(effectivePrompt, hist[p])
                ELSE given[p][i]]]
  /\ calls' = [calls EXCEPT ![p] = IF retry THEN @ + 1 ELSE @]
  /\ observed' = [observed EXCEPT ![p][n] = IF resumed THEN @ + 1 ELSE @]
  /\ ret' = [ret EXCEPT ![p] = ret2]
  /\ job' = [job EXCEPT ![p] = IF ~done THEN @
                                ELSE IF ret2.st = "fulfilled" THEN "fulfilled" ELSE "rejected"]
  /\ results' = IF done /\ ret2.st = "fulfilled"
                THEN Store(results, p, JobOutcome(p, ret2.v, startedAt[p], now))
                ELSE results
  /\ spent' = [spent EXCEPT ![p] = IF resumed THEN @ + (now - began[p]) ELSE @]
  /\ began' = [began EXCEPT ![p] = IF retry THEN now ELSE @]
  \* the job's callback records the outcome; askOpenAI records the vendor call of a retry
  /\ IF (done /\ ret2.st = "fulfilled") \/ (retry /\ p = "openai")
     THEN /\ usageLog' = RecordUsage(usageLog, recorded)
          /\ recorded' = recorded + 1
     ELSE UNCHANGED <<usageLog, recorded>>
  /\ UNCHANGED <<body, context, hasKey, cfgTimeout, attempts, now, pc, res, startedAt, tmo,
                 effectivePrompt, hist>>
  /\ UNCHANGED <<streamVars, drawVars, cliVars, servedVars, adapterVars, configVars, usageView>>

\* the adapter calls that settled after withTimeout had given up on them
LateCalls ==
  {c \in Providers \X AttemptIdx :
     timer[c[1]][c[2]] = "fired" /\ op[c[1]][c[2]] \in {"resolved", "rejected"}}

\* an adapter call in flight can settle; MaxLate caps the abandoned ones that do
CanSettle(p, n) ==
  /\ op[p][n] = "inflight"
  /\ timer[p][n] = "fired" => Cardinality(LateCalls) < MaxLate

\* the adapter call of attempt n resolves with a text
OpResolve(p, n) ==
  /\ CanSettle(p, n)
  /\ Settle(p, n, OnResolved(AdapterText(p, n)), "resolved", ClearTimeout(timer[p][n]))

\* the adapter call of attempt n rejects (the vendor refused, the transport failed...)
OpReject(p, n) ==
  /\ CanSettle(p, n)
  /\ Settle(p, n, OnRejected(AdapterError(p, n)), "rejected", ClearTimeout(timer[p][n]))

\* faulty variant: the timer callback aborts the adapter call
TimerFireAborts(p, n) ==
  /\ timer[p][n] = "armed"
  /\ Settle(p, n, OnTimeout(Label(p), tmo[p]), "aborted", "fired")

\* the timer of attempt n fires; the adapter call stays in flight
TimerFire(p, n) ==
  /\ timer[p][n] = "armed"
  /\ Settle(p, n, OnTimeout(Label(p), tmo[p]), op[p][n], "fired")

(***************************************************************************)
(* await Promise.all(jobs); res.json(results)                              *)
(***************************************************************************)
\* faulty variant: the first fulfilled job fulfils the join
PromiseAllShortCircuit(js) ==
  IF \E p \in Providers : js[p] = "rejected" THEN "rejected"
  ELSE IF \E p \in Providers : js[p] = "fulfilled" THEN "fulfilled"
  ELSE IF \A p \in Providers : js[p] = "none" THEN "fulfilled"
  ELSE "pending"

\* Promise.all: fulfilled once every job is, rejected as soon as one is
PromiseAll(js) ==
  IF \E p \in Providers : js[p] = "rejected" THEN "rejected"
  ELSE IF \A p \in Providers : js[p] \in {"none", "fulfilled"} THEN "fulfilled"
  ELSE "pending"

Respond ==
  /\ pc = "awaiting"
  /\ PromiseAll(job) # "pending"
  /\ IF PromiseAll(job) = "fulfilled"
     THEN /\ res' = [status |-> 200, json |-> results, error |-> ""]
          /\ pc' = "done"
     ELSE \* the handler's promise rejects: no aggregate is sent
          /\ res' = res
          /\ pc' = "failed"
  /\ UNCHANGED <<body, context, hasKey, cfgTimeout, attempts, now, results, job, startedAt,
                 tmo, calls, op, timer, wrap, observed, ret, effectivePrompt, hist, given,
                 began, spent>>
  /\ UNCHANGED besideAsk

Next ==
  \/ Ask
  \/ \E p \in Providers, n \in AttemptIdx : OpResolve(p, n)
  \/ \E p \in Providers, n \in AttemptIdx : OpReject(p, n)
  \/ \E p \in Providers, n \in AttemptIdx : TimerFire(p, n)
  \/ Respond

Spec == Init /\ [][Next]_vars

(***************************************************************************)
(* runWithRetries and withTimeout on their own: one credentialed provider  *)
(* is requested, the ceiling ranges over 1 .. MaxAttempts, and the         *)
(* per-attempt timeout comes from the request, from DEFAULTS or from the   *)
(* provider's config file.                                                 *)
(***************************************************************************)
OneProvider ==
  {f \in [Providers -> {"true", "undefined"}] :
     Cardinality({p \in Providers : f[p] = "true"}) = 1}

InitRetry ==
  InitWith([prompt : {Str(<<"h", "i">>)}, providers : OneProvider,
            timeoutMs : {NoNumber, Num(50)}, useModelConfig : BOOLEAN],
           {[p \in Providers |-> TRUE]},
           {[p \in Providers |-> CASE p = "openai" -> 1000
                                    [] p = "claude" -> 2000
                                    [] OTHER        -> 3000]},
           1 .. MaxAttempts)

SpecRetry == InitRetry /\ [][Next]_vars

\* Node runs the handler of an accepted connection, runs the callback of every
\* armed timer once it is due, and runs every promise reaction that is ready
Fairness ==
  /\ WF_vars(Ask)
  /\ WF_vars(Respond)
  /\ \A p \in Providers, n \in AttemptIdx : WF_vars(TimerFire(p, n))

FairSpec == InitRetry /\ [][Next]_vars /\ Fairness

(***************************************************************************)
(* /api/ask with several providers at once, each with a per-attempt        *)
(* timeout of its own (useModelConfig and a config file per provider), and *)
(* the scheduling of Node.                                                 *)
(***************************************************************************)
SeveralProviders ==
  {f \in [Providers -> {"true", "undefined"}] :
     Cardinality({p \in Providers : f[p] = "true"}) = 2}

InitBounded ==
  InitWith([prompt : {Str(<<"h", "i">>)}, providers : SeveralProviders,
            timeoutMs : {NoNumber}, useModelConfig : {TRUE}],
           {[p \in Providers |-> TRUE]},
           {[p \in Providers |-> CASE p = "openai" -> 1000
                                    [] p = "claude" -> 2000
                                    [] OTHER        -> 3000]},
           {HttpAttempts})

FairBounded == InitBounded /\ [][Next]_vars /\ Fairness

(***************************************************************************)
(* The HTTP path with its own ceiling and every source of the per-attempt  *)
(* timeout: the request's timeoutMs or none, useModelConfig on or off, and *)
(* config files that are absent (loadProviderConfig yields DEFAULTS) or    *)
(* that set a timeoutMs per provider.                                      *)
(***************************************************************************)
InitHttp ==
  InitWith([prompt : {Str(<<"h", "i">>)}, providers : OneProvider,
            timeoutMs : {NoNumber, Num(50)}, useModelConfig : BOOLEAN],
           {[p \in Providers |-> TRUE]},
           {[p \in Providers |-> DefaultTimeoutMs],
            [p \in Providers |-> CASE p = "openai" -> 1000
                                   [] p = "claude" -> 2000
                                   [] OTHER        -> 3000]},
           {HttpAttempts})

SpecHttp == InitHttp /\ [][Next]_vars

(***************************************************************************)
(* The HTTP path with a running clock.  Date.now() counts milliseconds;    *)
(* Tick lets one pass, at any point of the run.  Any requested provider    *)
(* may lack its credential; at most one runs a retry sequence.             *)
(***************************************************************************)
Tick ==
  /\ now < MaxNow
  /\ now' = now + 1
  /\ UNCHANGED <<body, hasKey, askVars, besideAsk>>

InitClock ==
  /\ InitWith([prompt : {Str(<<"h", "i">>)}, providers : [Providers -> {"true", "undefined"}],
               timeoutMs : {NoNumber}, useModelConfig : {FALSE}],
              [Providers -> BOOLEAN],
              {[p \in Providers |-> DefaultTimeoutMs]},
              {HttpAttempts})
  /\ Cardinality({p \in Providers : Enabled(p)}) <= 1

NextClock == Next \/ Tick

SpecClock == InitClock /\ [][NextClock]_vars

(***************************************************************************)
(* pickHist on its own: the request carries any combination of histories   *)
(* entries, modelId and legacy history, and asks for the three providers,  *)
(* none of which has a credential, so that the handler resolves the three  *)
(* histories, stores the synthetic outcomes and answers.                   *)
(***************************************************************************)
HistoriesSent ==
  [openai : {JUndefined, JOther, JArray(<<>>), JArray(<<"o1">>)},
   claude : {JUndefined, JArray(<<"c1">>)},
   model1 : {JUndefined, JOther, JArray(<<"a1", "a2">>)},
   model2 : {JUndefined, JArray(<<"b1">>)},
   model3 : {JUndefined, JNull, JArray(<<"d1">>)}]

ContextsHist ==
  [history : {JUndefined, JNull, JOther, JArray(<<"h1">>)},
   histories : HistoriesSent,
   modelId : {NoModelId, NumericModelId, ModelId("model2"), ModelId("claude"),
              ModelId("card9")},
   attachments : {JUndefined}]

InitHist ==
  InitAll([prompt : {Str(<<"h", "i">>)}, providers : {[p \in Providers |-> "true"]},
           timeoutMs : {NoNumber}, useModelConfig : {FALSE}],
          ContextsHist,
          {[p \in Providers |-> FALSE]},
          {[p \in Providers |-> DefaultTimeoutMs]},
          {HttpAttempts})

(***************************************************************************)
(* buildPromptWithAttachments on its way to the adapters: one credentialed *)
(* provider is requested, and the request carries no attachments, an empty *)
(* list, or one or two attachments whose contents lie below, at and above  *)
(* MAX_PER.                                                                *)
(***************************************************************************)
Upload(of, len) == Attachment("a.txt", "text/csv", len, Content(of, len))
Unnamed == Attachment("", "", 0, Content("f2", 7))
Binary == Attachment("n.bin", "", 12, NoContent)

AttachmentsSent ==
  {JUndefined, JOther, JArray(<<>>)}
    \cup {JArray(<<Upload("f1", len)>>) : len \in {0, MaxPer - 1, MaxPer, MaxPer + 1, 150000}}
    \cup {JArray(<<Unnamed>>), JArray(<<Binary>>),
          JArray(<<Upload("f1", 150000), Unnamed>>),
          JArray(<<Unnamed, Upload("f1", 150000), Upload("f3", MaxPer)>>)}

InitAttach ==
  InitAll([prompt : {Str(<<"h", "i">>)}, providers : OneProvider,
           timeoutMs : {NoNumber}, useModelConfig : {FALSE}],
          [history : {JUndefined}, histories : {NoHistories}, modelId : {NoModelId},
           attachments : AttachmentsSent],
          {[p \in Providers |-> TRUE]},
          {[p \in Providers |-> DefaultTimeoutMs]},
          {HttpAttempts})

SpecAttach == InitAttach /\ [][Next]_vars

(***************************************************************************)
(* The effective prompt on its way to several adapters: two credentialed   *)
(* providers are requested, with or without attachments.                   *)
(***************************************************************************)
TwoProviders ==
  {f \in [Providers -> {"true", "undefined"}] :
     Cardinality({p \in Providers : f[p] = "true"}) = 2}

InitShared ==
  InitAll([prompt : {Str(<<"h", "i">>)}, providers : TwoProviders,
           timeoutMs : {NoNumber}, useModelConfig : {FALSE}],
          [history : {JUndefined}, histories : {NoHistories}, modelId : {NoModelId},
           attachments : {JUndefined, JArray(<<Upload("f1", 150000)>>),
                          JArray(<<Unnamed, Upload("f3", MaxPer)>>)}],
          {[p \in Providers |-> TRUE]},
          {[p \in Providers |-> DefaultTimeoutMs]},
          {HttpAttempts})

SpecShared == InitShared /\ [][Next]_vars

\* without a credentialed provider the handler runs from entry to answer
NextSync == Ask \/ Respond

SpecHist == InitHist /\ [][NextSync]_vars

(***************************************************************************)
(* app.post('/api/stream'): one vendor stream relayed to the caller as     *)
(* server-sent events.  The handler runs up to `await create(...)`, then   *)
(* once per part the vendor's stream yields, and ends with the done event  *)
(* or, from its catch block, with an error event.                          *)
(***************************************************************************)
\* a part of the vendor's stream: with a delta content (its characters), or without
Delta(chars) == [has |-> TRUE, chars |-> chars]
NoDelta == [has |-> FALSE, chars |-> <<>>]
Parts == {NoDelta, Delta(<<>>), Delta(<<"a">>), Delta(<<"b", "c">>)}

\* part?.choices?.[0]?.delta?.content ?? ''
DeltaOf(part) == IF part.has THEN part.chars ELSE <<>>

\* the events the handler writes
DeltaEvent(chars) == [type |-> "delta", chars |-> chars, message |-> "", latencyMs |-> 0]
DoneEvent(text, latencyMs) ==
  [type |-> "done", chars |-> text, message |-> "", latencyMs |-> latencyMs]
ErrorEvent(message) == [type |-> "error", chars |-> <<>>, message |-> message, latencyMs |-> 0]

\* if (!prompt)
StreamPromptMissing(prompt) ==
  \/ prompt.type = "undefined"
  \/ prompt.type = "string" /\ prompt.chars = <<>>

\* faulty variant: a fragment is put in front of what has accumulated
AccumulateInFront(text, delta) == delta \o text

\* accumulated += delta
Accumulate(text, delta) == text \o delta

\* the catch block: write one error event, end the response
Caught(message) ==
  /\ sse' = [sse EXCEPT !.events = Append(@, ErrorEvent(message)), !.ended = TRUE]
  /\ spc' = "ended"

\* faulty variant: the streaming path resolves its history as /api/ask does
StreamHistAsAsk == PickHist("openai")

\* const history = (typeof modelId === 'string' && Array.isArray(histories?.[modelId]))
\*   ? histories[modelId] : (histories?.openai || [])
\* a histories.openai that is no array is taken to be truthy, as an object is
StreamHist ==
  IF context.modelId.type = "string" /\ IsArray(HistoriesAt(context.modelId.key))
  THEN HistoriesAt(context.modelId.key)
  ELSE IF HistoriesAt("openai").kind \in {"undefined", "null"} THEN JArray(<<>>)
  ELSE HistoriesAt("openai")

\* the handler up to `await client.chat.completions.create(...)`
Stream ==
  /\ spc = "idle"
  /\ IF StreamPromptMissing(body.prompt)
     THEN /\ sse' = [sse EXCEPT !.status = 400, !.ended = TRUE]
          /\ spc' = "ended"
          /\ UNCHANGED <<streamStartedAt, creates, streamHist, usageLog, recorded>>
     ELSE IF ~hasKey["openai"]
     THEN /\ sse' = [status |-> 200, headers |-> TRUE,
                     events |-> <<ErrorEvent("Missing OPENAI_API_KEY")>>, ended |-> TRUE]
          /\ spc' = "ended"
          /\ UNCHANGED <<streamStartedAt, creates, streamHist, usageLog, recorded>>
     ELSE /\ sse' = [sse EXCEPT !.status = 200, !.headers = TRUE]
          /\ streamStartedAt' = now
          /\ usageLog' = RecordUsage(usageLog, recorded)
          /\ recorded' = recorded + 1
          /\ creates' = creates + 1
          /\ streamHist' = StreamHist
          /\ spc' = "opening"
  /\ UNCHANGED <<body, hasKey, now, askVars, drawVars, cliVars, servedVars, adapterVars, configVars, usageView,
                 arrived, accumulated>>

\* create(...) resolves with the vendor's stream
StreamOpen ==
  /\ spc = "opening"
  /\ spc' = "streaming"
  /\ accumulated' = <<>>
  /\ UNCHANGED <<body, hasKey, now, besideStream, sse, arrived, streamStartedAt, creates, streamHist>>

\* faulty variant: a failed create(...) is tried again
StreamOpenFailsRetries ==
  /\ spc = "opening"
  /\ creates < HttpAttempts
  /\ creates' = creates + 1
  /\ UNCHANGED <<body, hasKey, now, besideStream, spc, sse, arrived, accumulated,
                 streamStartedAt, streamHist>>

\* create(...) rejects
StreamOpenFails ==
  /\ spc = "opening"
  /\ Caught("create failed")
  /\ UNCHANGED <<body, hasKey, now, besideStream, arrived, accumulated, streamStartedAt, creates, streamHist>>

\* one turn of `for await (const part of stream)`
StreamPart(part) ==
  /\ spc = "streaming"
  /\ Len(arrived) < MaxParts
  /\ arrived' = Append(arrived, part)
  /\ IF DeltaOf(part) # <<>>
     THEN /\ accumulated' = Accumulate(accumulated, DeltaOf(part))
          /\ sse' = [sse EXCEPT !.events = Append(@, DeltaEvent(DeltaOf(part)))]
     ELSE UNCHANGED <<accumulated, sse>>
  /\ UNCHANGED <<body, hasKey, now, besideStream, spc, streamStartedAt, creates, streamHist>>

\* faulty variant: after a fault in the stream the error is reported and the loop goes on
StreamFaultGoesOn ==
  /\ spc = "streaming"
  /\ sse.events = <<>> \/ sse.events[Len(sse.events)].type # "error"
  /\ sse' = [sse EXCEPT !.events = Append(@, ErrorEvent("stream failed"))]
  /\ UNCHANGED <<body, hasKey, now, besideStream, spc, arrived, accumulated, streamStartedAt, creates, streamHist>>

\* the vendor's stream throws in the middle of the loop
StreamFault ==
  /\ spc = "streaming"
  /\ Caught("stream failed")
  /\ UNCHANGED <<body, hasKey, now, besideStream, arrived, accumulated, streamStartedAt, creates, streamHist>>

\* the vendor's stream is over: write the done event, end the response
StreamComplete ==
  /\ spc = "streaming"
  /\ sse' = [sse EXCEPT !.events = Append(@, DoneEvent(accumulated, now - streamStartedAt)),
                        !.ended = TRUE]
  /\ spc' = "ended"
  /\ UNCHANGED <<body, hasKey, now, besideStream, arrived, accumulated, streamStartedAt, creates, streamHist>>

InitStream ==
  InitAll([prompt : Prompts, providers : {[p \in Providers |-> "undefined"]},
           timeoutMs : {NoNumber}, useModelConfig : {FALSE}],
          {NoContext},
          {[p \in Providers |-> p = "openai"], [p \in Providers |-> FALSE]},
          {[p \in Providers |-> DefaultTimeoutMs]},
          {HttpAttempts})

NextStream ==
  \/ Stream
  \/ StreamOpen
  \/ StreamOpenFails
  \/ \E part \in Parts : StreamPart(part)
  \/ StreamFault
  \/ StreamComplete

SpecStream == InitStream /\ [][NextStream]_vars

(***************************************************************************)
(* One body with histories, modelId and legacy history sent to /api/ask    *)
(* and to /api/stream.  The OpenAI credential is configured and the        *)
(* request asks for Claude, whose credential is missing: /api/ask resolves *)
(* the three histories and answers, /api/stream resolves its history and   *)
(* calls create(...), which rejects.                                       *)
(***************************************************************************)
InitResolve ==
  InitAll([prompt : {Str(<<"h", "i">>)},
           providers : {[p \in Providers |-> IF p = "claude" THEN "true" ELSE "undefined"]},
           timeoutMs : {NoNumber}, useModelConfig : {FALSE}],
          ContextsHist,
          {[p \in Providers |-> p = "openai"]},
          {[p \in Providers |-> DefaultTimeoutMs]},
          {HttpAttempts})

NextResolve == Ask \/ Respond \/ Stream \/ StreamOpenFails

SpecResolve == InitResolve /\ [][NextResolve]_vars

\* the streaming path while time passes
NextStreamClock == NextStream \/ Tick

SpecStreamClock == InitStream /\ [][NextStreamClock]_vars

(***************************************************************************)
(* One body sent to /api/ask and to /api/stream: any prompt, one           *)
(* credentialed provider requested.  The two handlers run side by side.    *)
(***************************************************************************)
InitValidate ==
  InitAll([prompt : Prompts, providers : OneProvider,
           timeoutMs : {NoNumber}, useModelConfig : {FALSE}],
          {NoContext},
          {[p \in Providers |-> TRUE]},
          {[p \in Providers |-> DefaultTimeoutMs]},
          {HttpAttempts})

NextValidate == Next \/ NextStream

SpecValidate == InitValidate /\ [][NextValidate]_vars

(***************************************************************************)
(* app.post('/api/draw') and drawOpenAI: one image generation call.        *)
(***************************************************************************)
\* faulty variant: the prompt is handed to the vendor unchecked
DrawPromptUnchecked(prompt) == FALSE

\* !prompt || typeof prompt !== 'string'
DrawPromptMissing(prompt) ==
  \/ prompt.type = "undefined"
  \/ prompt.type # "string"
  \/ prompt.chars = <<>>

\* what response.data?.[0]?.b64_json can be: the image, or nothing
Images == {"iVBORw0KGgo", ""}

\* the handler up to `await client.images.generate(...)` inside drawOpenAI
Draw ==
  /\ dpc = "idle"
  /\ IF DrawPromptMissing(body.prompt)
     THEN /\ dres' = DrawRefused
          /\ dpc' = "done"
          /\ UNCHANGED drawStartedAt
     ELSE IF ~hasKey["openai"]
     THEN \* drawOpenAI throws, the handler's await rethrows into the catch block
          /\ dres' = DrawFailed("Missing OPENAI_API_KEY")
          /\ dpc' = "done"
          /\ drawStartedAt' = now
     ELSE /\ drawStartedAt' = now
          /\ dpc' = "drawing"
          /\ UNCHANGED dres
  /\ UNCHANGED <<body, hasKey, now, besideDraw>>

\* images.generate resolves; drawOpenAI returns the data URL or throws
DrawGenerated(b64) ==
  /\ dpc = "drawing"
  /\ dres' = IF b64 # "" THEN DrawOk(DataUrl(b64), now - drawStartedAt)
             ELSE DrawFailed("No image generated")
  /\ dpc' = "done"
  /\ UNCHANGED <<body, hasKey, now, besideDraw, drawStartedAt>>

\* images.generate rejects
DrawRejects ==
  /\ dpc = "drawing"
  /\ dres' = DrawFailed("generate failed")
  /\ dpc' = "done"
  /\ UNCHANGED <<body, hasKey, now, besideDraw, drawStartedAt>>

InitDraw ==
  InitAll([prompt : Prompts, providers : {[p \in Providers |-> "undefined"]},
           timeoutMs : {NoNumber}, useModelConfig : {FALSE}],
          {NoContext},
          {[p \in Providers |-> p = "openai"], [p \in Providers |-> FALSE]},
          {[p \in Providers |-> DefaultTimeoutMs]},
          {HttpAttempts})

NextDraw ==
  \/ Draw
  \/ \E b64 \in Images : DrawGenerated(b64)
  \/ DrawRejects
  \/ Tick

SpecDraw == InitDraw /\ [][NextDraw]_vars

(***************************************************************************)
(* The adapters on their own: each is called with the request's system     *)
(* instruction, a transcript and the prompt, and builds what it submits.   *)
(***************************************************************************)
\* askOpenAI, askClaude, askGemini and /api/stream up to the vendor call
BuildMessages(vendor) ==
  /\ ~sent[vendor].built
  /\ sent' = [sent EXCEPT ![vendor] =
                Submission(vendor, transcript, <<PromptChars(body.prompt.chars)>>)]
  \* askOpenAI records the vendor call it is about to make
  /\ IF vendor = "openai"
     THEN /\ usageLog' = RecordUsage(usageLog, recorded)
          /\ recorded' = recorded + 1
     ELSE UNCHANGED <<usageLog, recorded>>
  /\ UNCHANGED <<body, hasKey, now, askVars, streamVars, drawVars, cliVars, servedVars, configVars, usageView,
                 transcript, response, returned>>

\* responses.create resolves: askOpenAI returns the text of the response
ResearchReturns ==
  /\ sent["openai"].built
  /\ sent["openai"].payload.api = "responses.create"
  /\ ~returned.done
  /\ returned' = [done |-> TRUE, text |-> ResearchText(response)]
  /\ UNCHANGED <<body, hasKey, now, askVars, streamVars, drawVars, cliVars, servedVars, configVars, usageVars,
                 transcript, sent, response>>

TurnsSent ==
  {Turn("user", Text("q1")), Turn("assistant", Text("a1")), Turn("system", Text("s1")),
   Turn("tool", Text("t1")), Turn("undefined", Text("u1")),
   Turn("assistant", Text("")), Turn("user", NumericContent), Turn("assistant", NoText),
   NullTurn}

TranscriptsSent ==
  {JUndefined, JOther, JArray(<<>>)}
    \cup {JArray(<<m>>) : m \in TurnsSent}
    \cup {JArray(<<m, n>>) : m \in TurnsSent, n \in TurnsSent}
    \cup {JArray(<<Turn("user", Text("q1")), m, Turn("assistant", Text("a1")), n>>) :
            m \in TurnsSent, n \in TurnsSent}

InitAdapters ==
  /\ InitRequest([prompt : {Str(<<"h", "i">>)}, providers : {[p \in Providers |-> "true"]},
                  timeoutMs : {NoNumber}, useModelConfig : {FALSE}],
                 {NoContext},
                 {[p \in Providers |-> TRUE]},
                 {[p \in Providers |-> DefaultTimeoutMs]},
                 {HttpAttempts})
  /\ settings \in {NoSettings, [NoSettings EXCEPT !.system = Val("be brief")]}
  /\ files = NoFiles
  /\ transcript \in TranscriptsSent
  /\ response = NoResponse

NextAdapters == \E vendor \in Vendors : BuildMessages(vendor)

SpecAdapters == InitAdapters /\ [][NextAdapters]_vars

\* the same calls, over the generation settings of the request
ModelsSent ==
  {NoVal, Val("gpt-5-mini"), Val("GPT-5"), Val("gpt-4.1-2025-04-14"), Val("gpt-4o-mini")}

InitPayload ==
  /\ InitRequest([prompt : {Str(<<"h", "i">>)}, providers : {[p \in Providers |-> "true"]},
                  timeoutMs : {NoNumber}, useModelConfig : BOOLEAN],
                 {NoContext},
                 {[p \in Providers |-> TRUE]},
                 {[p \in Providers |-> DefaultTimeoutMs]},
                 {HttpAttempts})
  /\ settings \in [system : {NoVal}, temperature : {NoVal, Val("0.9")},
                    maxTokens : {NoVal, Val("50")}, model : ModelsSent,
                    maxCompletionTokens : {NoVal, Val("60")}]
  /\ files \in [openai : {NoFile, ConfigFile(NoVal, Val("0.5"), Val("2048"))},
                 gpt5mini : {NoFile}]
  /\ transcript = JUndefined
  /\ response = NoResponse

SpecPayload == InitPayload /\ [][NextAdapters]_vars

\* askOpenAI with research models and others, and the responses it is given
ResponsesSent ==
  {NoResponse,
   Response(Text("final"), JUndefined),
   Response(Text("final"), JArray(<<OutputItem(Text("x1"), JUndefined)>>)),
   Response(Text(""), JUndefined),
   Response(Text(""), JArray(<<OutputItem(Text("x1"), JUndefined),
                               OutputItem(NoText, JArray(<<Fragment(Text("y1")),
                                                           Fragment(NoText),
                                                           Fragment(Text("y2"))>>)),
                               OutputItem(NoText, JUndefined),
                               OutputItem(Text("x2"), JArray(<<Fragment(Text("y3"))>>))>>)),
   Response(NoText, JArray(<<OutputItem(NoText, JArray(<<Fragment(Text("y1"))>>)),
                             OutputItem(Text("x1"), JUndefined)>>)),
   Response(NumericContent, JArray(<<OutputItem(Text("x1"), JUndefined)>>)),
   Response(NoText, JOther)}

InitResearch ==
  /\ InitRequest([prompt : {Str(<<"h", "i">>)}, providers : {[p \in Providers |-> "true"]},
                  timeoutMs : {NoNumber}, useModelConfig : BOOLEAN],
                 {NoContext},
                 {[p \in Providers |-> TRUE]},
                 {[p \in Providers |-> DefaultTimeoutMs]},
                 {HttpAttempts})
  /\ settings \in [system : {NoVal, Val("be brief")}, temperature : {NoVal, Val("0.9")},
                    maxTokens : {NoVal, Val("50")},
                    model : {Val("o4-mini-deep-research"), Val("O3-Deep-Research"),
                             Val("gpt-4o-mini")},
                    maxCompletionTokens : {NoVal}]
  /\ files = NoFiles
  /\ transcript \in {JUndefined, JOther, JArray(<<>>),
                      JArray(<<Turn("user", Text("q1")), Turn("assistant", Text("")),
                               Turn("assistant", Text("a1")), Turn("tool", Text("t1"))>>),
                      JArray(<<Turn("system", Text("s1")), NullTurn,
                               Turn("user", NumericContent)>>)}
  /\ response \in ResponsesSent

NextResearch == BuildMessages("openai") \/ ResearchReturns

SpecResearch == InitResearch /\ [][NextResearch]_vars

(***************************************************************************)
(* /api/ask, several requests at a time.  Each retry sequence is seen as   *)
(* a whole: it settles once, with the outcome of its last attempt.         *)
(***************************************************************************)
\* the synchronous part of the handler for a request with body b
Arrive(r, b) ==
  LET requested(p) == b.providers[p] = "true"
      missing(p) == ~hasKey[p] /\ requested(p)
      enabled(p) == requested(p) /\ hasKey[p]
      history == IF b.history.kind \in {"undefined", "null"} THEN JArray(<<>>) ELSE b.history
  IN
  /\ ~asked[r].arrived
  /\ asked' = [asked EXCEPT ![r] = [arrived |-> TRUE, prompt |-> b.prompt,
                                     history |-> b.history, providers |-> b.providers]]
  /\ IF PromptMissing(b.prompt)
     THEN /\ replied' = [replied EXCEPT ![r] =
                           [status |-> 400, json |-> <<>>, error |-> "Missing prompt"]]
          /\ UNCHANGED <<jobsOf, callsOf, resultsOf, usageLog, recorded>>
     ELSE /\ resultsOf' = [resultsOf EXCEPT ![r] =
                             [p \in {q \in Providers : missing(q)} |-> MissingKeyOutcome(p)]]
          /\ jobsOf' = [jobsOf EXCEPT ![r] =
                          [p \in Providers |->
                             IF ~missing(p) /\ enabled(p) THEN "pending" ELSE "none"]]
          /\ callsOf' = [callsOf EXCEPT ![r] =
                           [p \in Providers |->
                              IF ~missing(p) /\ enabled(p)
                              THEN AdapterArgs(BuildPromptWithAttachments(b.prompt, JUndefined),
                                               history)
                              ELSE NotCalled]]
          /\ IF enabled("openai")
             THEN /\ usageLog' = RecordUsage(usageLog, recorded)
                  /\ recorded' = recorded + 1
             ELSE UNCHANGED <<usageLog, recorded>>
          /\ UNCHANGED replied
  /\ UNCHANGED <<body, hasKey, now, askVars, streamVars, drawVars, cliVars, adapterVars, configVars,
                 usageView>>

\* the retry sequence of provider p of invocation r settles; the job's callback runs
Finish(r, p, ok) ==
  LET result == IF ok THEN OnResolved(AnswerTo(p, r)) ELSE OnRejected(RejectionTo(p, r))
  IN
  /\ jobsOf[r][p] = "pending"
  /\ jobsOf' = [jobsOf EXCEPT ![r][p] = "fulfilled"]
  /\ resultsOf' = StoreFor(resultsOf, r, p, JobOutcome(p, result, now, now))
  /\ usageLog' = RecordUsage(usageLog, recorded)
  /\ recorded' = recorded + 1
  /\ UNCHANGED <<body, hasKey, now, askVars, streamVars, drawVars, cliVars, adapterVars, configVars,
                 usageView, asked, callsOf, replied>>

\* await Promise.all(jobs); res.json(results)
ReplyAll(r) ==
  /\ asked[r].arrived
  /\ replied[r].status = 0
  /\ PromiseAll(jobsOf[r]) = "fulfilled"
  /\ replied' = [replied EXCEPT ![r] = [status |-> 200, json |-> resultsOf[r], error |-> ""]]
  /\ UNCHANGED <<body, hasKey, now, askVars, streamVars, drawVars, cliVars, adapterVars, configVars,
                 usageVars, asked, jobsOf, callsOf, resultsOf>>

\* the requests of SpecConcurrent: two prompts, each with its own history
BodiesAsked ==
  [prompt : {Str(<<"a">>)}, history : {JUndefined},
   providers : {[p \in Providers |-> IF p = "openai" THEN "true" ELSE "undefined"],
                [p \in Providers |-> IF p = "gemini" THEN "undefined" ELSE "true"]}]
  \cup
  [prompt : {Str(<<"b">>)}, history : {JArray(<<"h1">>)},
   providers : {[p \in Providers |-> IF p = "openai" THEN "true" ELSE "undefined"],
                [p \in Providers |-> IF p = "gemini" THEN "undefined" ELSE "true"]}]
  \cup
  [prompt : {NotSent}, history : {JUndefined},
   providers : {[p \in Providers |-> "true"]}]

InitConcurrent ==
  InitWith([prompt : {Str(<<"h", "i">>)}, providers : {[p \in Providers |-> "undefined"]},
            timeoutMs : {NoNumber}, useModelConfig : {FALSE}],
           {[p \in Providers |-> TRUE], [p \in Providers |-> p # "claude"]},
           {[p \in Providers |-> DefaultTimeoutMs]},
           {HttpAttempts})

NextConcurrent ==
  \/ \E r \in Invocations, b \in BodiesAsked : Arrive(r, b)
  \/ \E r \in Invocations, p \in Providers, ok \in BOOLEAN : Finish(r, p, ok)
  \/ \E r \in Invocations : ReplyAll(r)

SpecConcurrent == InitConcurrent /\ [][NextConcurrent]_vars

(***************************************************************************)
(* index.js main, the command line path: one withTimeout per provider, the *)
(* results printed after `await Promise.all(jobs)`.                        *)
(***************************************************************************)
\* main up to `await Promise.all(jobs)`, for the command line a
Main(a) ==
  /\ cliPc = "idle"
  /\ argv' = a
  /\ IF a.prompt.type # "string" \/ a.prompt.chars = <<>>
     THEN \* console.error('No prompt provided...'); process.exit(1)
          /\ cliPc' = "exited"
          /\ UNCHANGED <<cliOp, cliTimer, cliWrap, cliCalls, cliJobs, usageLog, recorded>>
     ELSE /\ cliOp' = [p \in Providers |-> IF CliStarts(a, p) THEN "inflight" ELSE "none"]
          /\ cliTimer' = [p \in Providers |-> IF CliStarts(a, p) THEN "armed" ELSE "none"]
          /\ cliWrap' = [p \in Providers |-> IF CliStarts(a, p) THEN Pending ELSE Unborn]
          /\ cliCalls' = [p \in Providers |-> IF CliStarts(a, p) THEN 1 ELSE 0]
          /\ cliJobs' = [p \in Providers |-> IF CliStarts(a, p) THEN "pending" ELSE "none"]
          \* askOpenAI records the vendor call it is about to make
          /\ IF CliStarts(a, "openai")
             THEN /\ usageLog' = RecordUsage(usageLog, recorded)
                  /\ recorded' = recorded + 1
             ELSE UNCHANGED <<usageLog, recorded>>
          /\ cliPc' = "awaiting"
  /\ UNCHANGED <<body, hasKey, now, askVars, streamVars, drawVars, adapterVars, configVars,
                 usageView, servedVars, cliResults, printed>>

\* one event of provider p's withTimeout calls resolve(o); if that settles the
\* promise, the `.then` callback of main stores results.<p>
CliSettle(p, o, opNow, timerNow) ==
  LET w2 == PromiseResolve(cliWrap[p], o)
      resumed == Settles(cliWrap[p], w2)
  IN
  /\ cliWrap' = [cliWrap EXCEPT ![p] = w2]
  /\ cliOp' = [cliOp EXCEPT ![p] = opNow]
  /\ cliTimer' = [cliTimer EXCEPT ![p] = timerNow]
  /\ cliJobs' = [cliJobs EXCEPT ![p] = IF resumed THEN "fulfilled" ELSE @]
  /\ cliResults' = IF resumed THEN Store(cliResults, p, JobOutcome(p, w2.v, now, now))
                   ELSE cliResults
  /\ UNCHANGED <<body, hasKey, now, askVars, streamVars, drawVars, adapterVars, configVars,
                 usageVars, servedVars, argv, cliPc, cliCalls, printed>>

\* the adapter call resolves with a text
CliOpResolve(p) ==
  /\ cliOp[p] = "inflight"
  /\ CliSettle(p, OnResolved(AdapterText(p, 0)), "resolved", ClearTimeout(cliTimer[p]))

\* the adapter call rejects
CliOpReject(p) ==
  /\ cliOp[p] = "inflight"
  /\ CliSettle(p, OnRejected(AdapterError(p, 0)), "rejected", ClearTimeout(cliTimer[p]))

\* the timer fires; the adapter call stays in flight
CliTimerFire(p) ==
  /\ cliTimer[p] = "armed"
  /\ CliSettle(p, OnTimeout(Label(p), DefaultTimeoutMs), cliOp[p], "fired")

\* await Promise.all(jobs); then the results are written to the console
CliPrint ==
  /\ cliPc = "awaiting"
  /\ PromiseAll(cliJobs) = "fulfilled"
  /\ printed' = [done |-> TRUE, json |-> cliResults]
  /\ cliPc' = "printed"
  /\ UNCHANGED <<body, hasKey, now, askVars, streamVars, drawVars, adapterVars, configVars,
                 usageVars, servedVars, argv, cliOp, cliTimer, cliWrap, cliCalls, cliJobs,
                 cliResults>>

ArgvGiven == {Argv(prompt, flags) : prompt \in {Str(<<"h", "i">>), Str(<<>>)},
                                    flags \in [Providers -> BOOLEAN]}

InitCli ==
  InitWith([prompt : {Str(<<"h", "i">>)}, providers : {[p \in Providers |-> "undefined"]},
            timeoutMs : {NoNumber}, useModelConfig : {FALSE}],
           [Providers -> BOOLEAN],
           {[p \in Providers |-> DefaultTimeoutMs]},
           {HttpAttempts})

NextCli ==
  \/ \E a \in ArgvGiven : Main(a)
  \/ \E p \in Providers : CliOpResolve(p)
  \/ \E p \in Providers : CliOpReject(p)
  \/ \E p \in Providers : CliTimerFire(p)
  \/ CliPrint

SpecCli == InitCli /\ [][NextCli]_vars

(***************************************************************************)
(* The usage log on its own: entries are recorded one after the other, the *)
(* log is read, and the reader does with its list as it likes.             *)
(***************************************************************************)
\* recordUsage(entry), from any of its callers
CallRecordUsage ==
  /\ recorded < MaxRecorded
  /\ usageLog' = RecordUsage(usageLog, recorded)
  /\ recorded' = recorded + 1
  /\ usageView' = IF usageView.shared THEN [usageView EXCEPT !.entries = usageLog']
                  ELSE usageView
  /\ UNCHANGED <<body, hasKey, now, askVars, streamVars, drawVars, cliVars, servedVars, adapterVars, configVars>>

\* app.get('/api/usage'): getUsageLog()
CallGetUsageLog ==
  /\ usageLog' = GetUsageLog(usageLog).log
  /\ usageView' = [entries |-> GetUsageLog(usageLog).entries,
                   shared |-> GetUsageLog(usageLog).shared]
  /\ UNCHANGED <<body, hasKey, now, askVars, streamVars, drawVars, cliVars, servedVars, adapterVars, configVars, recorded>>

\* the caller empties the list it was given (entries.length = 0)
CallerChangesEntries ==
  /\ usageView.entries # <<>>
  /\ usageView' = [usageView EXCEPT !.entries = <<>>]
  /\ usageLog' = IF usageView.shared THEN <<>> ELSE usageLog
  /\ UNCHANGED <<body, hasKey, now, askVars, streamVars, drawVars, cliVars, servedVars, adapterVars, configVars, recorded>>

InitUsage ==
  InitWith([prompt : {Str(<<"h", "i">>)}, providers : {[p \in Providers |-> "undefined"]},
            timeoutMs : {NoNumber}, useModelConfig : {FALSE}],
           {[p \in Providers |-> TRUE]},
           {[p \in Providers |-> DefaultTimeoutMs]},
           {HttpAttempts})

NextUsage == CallRecordUsage \/ CallGetUsageLog \/ CallerChangesEntries

SpecUsage == InitUsage /\ [][NextUsage]_vars

(***************************************************************************)
(* The kinds of fault an adapter call can reject with: the vendor refuses  *)
(* the credential, the response cannot be read (a TypeError in the         *)
(* adapter), the transport fails.  One credentialed provider, the ceiling  *)
(* ranges over 1 .. MaxAttempts.                                           *)
(***************************************************************************)
FaultKinds == {"authentication failed", "malformed response", "transport fault"}

\* the Error adapter call n of provider p rejects with on a fault of the kind
AdapterFault(p, n, kind) == [message |-> <<kind, p, n>>]

\* the adapter call of attempt n rejects with a fault of the kind
OpFault(p, n, kind) ==
  /\ CanSettle(p, n)
  /\ Settle(p, n, OnRejected(AdapterFault(p, n, kind)), "rejected", ClearTimeout(timer[p][n]))

InitFaults ==
  InitWith([prompt : {Str(<<"h", "i">>)},
            providers : {[p \in Providers |-> IF p = "claude" THEN "true" ELSE "undefined"]},
            timeoutMs : {NoNumber}, useModelConfig : {FALSE}],
           {[p \in Providers |-> TRUE]},
           {[p \in Providers |-> DefaultTimeoutMs]},
           1 .. MaxAttempts)

NextFaults ==
  \/ Next
  \/ \E p \in Providers, n \in AttemptIdx, kind \in FaultKinds : OpFault(p, n, kind)

SpecFaults == InitFaults /\ [][NextFaults]_vars

(***************************************************************************)
(* The generation settings on their way from the request to the OpenAI     *)
(* vendor call: the handler of /api/ask resolves eff.* and hands them to   *)
(* askOpenAI, which builds the payload.                                    *)
(***************************************************************************)
\* app.post('/api/ask'): config, eff and the arguments of the OpenAI task factory
ResolveSettings ==
  /\ ~effOpenAI.called
  /\ effOpenAI' = OpenAIArgs
  /\ UNCHANGED <<body, hasKey, now, askVars, streamVars, drawVars, cliVars, servedVars, adapterVars, usageVars,
                 settings, files, payload>>

\* askOpenAI up to chat.completions.create(payload)
BuildPayload ==
  /\ effOpenAI.called
  /\ ~payload.built
  /\ payload' = OpenAIPayload(effOpenAI)
  /\ usageLog' = RecordUsage(usageLog, recorded)
  /\ recorded' = recorded + 1
  /\ UNCHANGED <<body, hasKey, now, askVars, streamVars, drawVars, cliVars, servedVars, adapterVars, usageView,
                 settings, files, effOpenAI>>

SettingsSent ==
  [system : {NoVal, Val("be brief")},
   temperature : {NoVal, Val("0.9")},
   maxTokens : {NoVal, Val("50")},
   model : {NoVal, Val("gpt-5-mini"), Val("gpt-4o-mini")},
   maxCompletionTokens : {NoVal}]

ProviderFiles ==
  {NoFile,
   ConfigFile(NoVal, NoVal, NoVal),
   ConfigFile(NoVal, NoVal, Val("2048")),
   ConfigFile(Val("provider system"), Val("0.5"), Val("2048"))}

ModelFiles ==
  {NoFile,
   ConfigFile(NoVal, NoVal, NoVal),
   ConfigFile(NoVal, Val("1"), NoVal),
   ConfigFile(Val("model system"), Val("1"), Val("4096"))}

InitSettings ==
  /\ InitRequest([prompt : {Str(<<"h", "i">>)},
                  providers : {[p \in Providers |-> IF p = "openai" THEN "true" ELSE "undefined"]},
                  timeoutMs : {NoNumber}, useModelConfig : BOOLEAN],
                 {NoContext},
                 {[p \in Providers |-> TRUE]},
                 {[p \in Providers |-> DefaultTimeoutMs]},
                 {HttpAttempts})
  /\ settings \in SettingsSent
  /\ files \in [openai : ProviderFiles, gpt5mini : ModelFiles]
  /\ transcript = JUndefined
  /\ response = NoResponse

NextSettings == ResolveSettings \/ BuildPayload

SpecSettings == InitSettings /\ [][NextSettings]_vars

(***************************************************************************)
(* Vocabulary of the claims.                                               *)
(***************************************************************************)
\* the providers a request asks for, read off the request body
AskedFor == {p \in Providers : body.providers[p] = "true"}

\* the providers whose job was pushed on jobs[]
Submitted == {p \in AskedFor : hasKey[p]}

\* the attempts of provider p made so far
Made(p) == {n \in AttemptIdx : n < calls[p]}

\* attempt n of provider p is over, and it failed / succeeded
Failed(p, n) == wrap[p][n].st = "fulfilled" /\ ~wrap[p][n].v.ok
Succeeded(p, n) == wrap[p][n].st = "fulfilled" /\ wrap[p][n].v.ok

\* the retry sequence of provider p is still running
SequencePending(p) ==
  \/ ret[p].st = "pending"
  \/ \E n \in AttemptIdx : wrap[p][n].st = "pending"

\* the aggregate has been sent
Answered == res.status = 200

(***************************************************************************)
(* C1: the aggregate response of /api/ask is sent only after every         *)
(* submitted provider job has settled: it is never sent while a submitted  *)
(* provider's retry sequence is pending, whatever the order of the         *)
(* settlements, and neither the first success nor the first failure        *)
(* short-circuits the join.                                                *)
(***************************************************************************)
C1_JoinWaitsForAll ==
  Answered =>
    \A p \in Submitted :
      /\ ~SequencePending(p)
      /\ ret[p].st = "fulfilled"
      /\ job[p] = "fulfilled"

\* answered with one provider that succeeded at once and one that used up its attempts
C1_Witness ==
  /\ Answered
  /\ \E p, q \in Submitted :
       /\ Succeeded(p, 0)
       /\ calls[q] = HttpAttempts
       /\ \A n \in Made(q) : Failed(q, n)

(***************************************************************************)
(* C2: a provider's failure (timeout, rejection) is reported as the error  *)
(* text of its own result slot; it does not keep the outcome of any other  *)
(* requested provider out of the response, and once the prompt has been    *)
(* accepted the endpoint answers with no status other than 200.            *)
(***************************************************************************)
C2_FailureStaysInItsSlot ==
  /\ ~PromptMissing(body.prompt) => (res.status \in {0, 200} /\ pc # "failed")
  /\ Answered =>
       /\ \A p \in AskedFor : p \in DOMAIN res.json
       /\ \A p \in Submitted :
            LET last == calls[p] - 1 IN
            Failed(p, last) =>
              /\ res.json[p].ok = FALSE
              /\ res.json[p].error = wrap[p][last].v.error.message
              /\ res.json[p].error # Undefined
              /\ res.json[p].text = Undefined
       /\ \A p \in Submitted :
            LET last == calls[p] - 1 IN
            Succeeded(p, last) =>
              /\ res.json[p].ok = TRUE
              /\ res.json[p].text = AdapterText(p, last)

\* answered: one provider failed on a timeout, one on a rejection, the third succeeded
C2_Witness ==
  /\ Answered
  /\ \E p, q, r \in Submitted :
       /\ Failed(p, HttpAttempts - 1) /\ timer[p][HttpAttempts - 1] = "fired"
       /\ Failed(q, HttpAttempts - 1) /\ op[q][HttpAttempts - 1] = "rejected"
       /\ res.json[r].ok

(***************************************************************************)
(* C3: three credentialed providers, one timing out on every attempt, one  *)
(* rejecting on every attempt, one succeeding: the result has exactly      *)
(* three keys and exactly one entry with ok = true, and it is the same     *)
(* whatever the order in which the three complete.                         *)
(***************************************************************************)
TimesOutAlways(p) == \A n \in Made(p) : wrap[p][n].st # "pending" => timer[p][n] = "fired"
RejectsAlways(p) ==
  \A n \in Made(p) : wrap[p][n].st # "pending" => (timer[p][n] = "cleared" /\ op[p][n] = "rejected")
SucceedsAtOnce(p) == wrap[p][0].st # "pending" => (timer[p][0] = "cleared" /\ op[p][0] = "resolved")

C3_Expected(a, b, c) ==
  (a :> [ok |-> FALSE, text |-> Undefined,
         error |-> <<"timed out after", Label(a), DefaultTimeoutMs>>])
  @@ (b :> [ok |-> FALSE, text |-> Undefined,
            error |-> <<"rejected by", b, HttpAttempts - 1>>])
  @@ (c :> [ok |-> TRUE, text |-> <<"answer of", c, 0>>, error |-> Undefined])

C3_ThreeWayJoin ==
  \A a, b, c \in Providers :
    (/\ Answered
     /\ Submitted = Providers
     /\ {a, b, c} = Providers
     /\ TimesOutAlways(a) /\ RejectsAlways(b) /\ SucceedsAtOnce(c))
    => /\ DOMAIN res.json = Providers
       /\ Cardinality({p \in DOMAIN res.json : res.json[p].ok}) = 1
       /\ calls[a] = HttpAttempts /\ calls[b] = HttpAttempts /\ calls[c] = 1
       /\ \A p \in Providers :
            [ok |-> res.json[p].ok, text |-> res.json[p].text, error |-> res.json[p].error]
              = C3_Expected(a, b, c)[p]

C3_Witness ==
  /\ Answered
  /\ Submitted = Providers
  /\ TimesOutAlways("gemini") /\ RejectsAlways("openai") /\ SucceedsAtOnce("claude")
  /\ \E n \in AttemptIdx : op["gemini"][n] = "resolved"

(***************************************************************************)
(* C4: a requested provider whose credential is not configured gets the    *)
(* outcome ok = false with the message naming its credential and           *)
(* latencyMs = 0, and no adapter call (no attempt, no timer) is ever made  *)
(* for it.                                                                 *)
(***************************************************************************)
C4_MissingCredential ==
  \A p \in AskedFor :
    (~hasKey[p] /\ pc # "idle" /\ ~PromptMissing(body.prompt)) =>
      /\ p \in DOMAIN results
      /\ results[p].ok = FALSE
      /\ results[p].text = Undefined
      /\ results[p].error = <<"Missing", KeyName(p), 0>>
      /\ results[p].latencyMs = 0
      /\ calls[p] = 0
      /\ \A n \in AttemptIdx : op[p][n] = "none" /\ timer[p][n] = "none"
      /\ Answered => res.json[p] = results[p]

\* answered: one provider without credential beside one that ran and failed
C4_Witness ==
  /\ Answered
  /\ \E p \in AskedFor, q \in Submitted :
       /\ ~hasKey[p]
       /\ ~res.json[q].ok

(***************************************************************************)
(* C5: the keys of the aggregate are exactly the providers the request     *)
(* asked for with providers.<name> === true: no other provider is a key,   *)
(* every such provider is one with or without credential, and a request    *)
(* asking for none gets the empty mapping.                                 *)
(***************************************************************************)
C5_KeysAreTheRequested ==
  Answered =>
    /\ DOMAIN res.json = {p \in Providers : body.providers[p] = "true"}
    /\ (\A p \in Providers : body.providers[p] # "true") => res.json = <<>>

\* answered: a truthy flag that is not `true`, a requested provider without
\* credential, and a requested provider with one
C5_Witness ==
  /\ Answered
  /\ \E p, q, r \in Providers :
       /\ body.providers[p] = "1" /\ hasKey[p]
       /\ body.providers[q] = "true" /\ ~hasKey[q]
       /\ body.providers[r] = "true" /\ hasKey[r]
       /\ DOMAIN res.json = {q, r}

(***************************************************************************)
(* C6: runWithRetries with a factory whose first k operations fail (reject *)
(* or time out) and whose operation k + 1 succeeds, k < ceiling, ends      *)
(* ok = true after exactly k + 1 calls of the factory; with a factory      *)
(* whose operations all fail it ends after exactly `ceiling` calls, with   *)
(* the failure of the last attempt.                                        *)
(***************************************************************************)
C6_RetryCounts ==
  \A p \in Submitted :
    /\ calls[p] <= attempts
    /\ \A k \in AttemptIdx :
         (k < attempts /\ Succeeded(p, k) /\ \A i \in 0 .. (k - 1) : Failed(p, i)) =>
           /\ ret[p] = Fulfilled(OnResolved(AdapterText(p, k)))
           /\ calls[p] = k + 1
    /\ (\A i \in 0 .. (attempts - 1) : Failed(p, i)) =>
           /\ calls[p] = attempts
           /\ ret[p].st = "fulfilled"
           /\ ret[p].v = wrap[p][attempts - 1].v
           /\ ~ret[p].v.ok
    /\ ret[p].st = "pending" => \A i \in Made(p) : i < calls[p] - 1 => Failed(p, i)

\* two failures, one by rejection and one by timeout, then a success, below the ceiling
C6_Witness ==
  \E p \in Submitted :
    /\ attempts > 3
    /\ op[p][0] = "rejected" /\ Failed(p, 0)
    /\ timer[p][1] = "fired" /\ Failed(p, 1)
    /\ Succeeded(p, 2)
    /\ calls[p] = 3

(***************************************************************************)
(* C7: runWithRetries never throws and its promise never rejects: whatever *)
(* the operations do (resolve, reject, never settle), it settles only by   *)
(* resolving to {ok: true, value} or {ok: false, error}, and it does       *)
(* settle.                                                                 *)
(***************************************************************************)
C7_Shape ==
  /\ pc # "failed"
  /\ \A p \in Providers :
       /\ ret[p].st \in {"none", "pending", "fulfilled"}
       /\ job[p] # "rejected"
       /\ ret[p].st = "fulfilled" =>
            \/ /\ ret[p].v.ok
               /\ ret[p].v.error = NoError
            \/ /\ ~ret[p].v.ok
               /\ ret[p].v.value = Undefined
               /\ ret[p].v.error # NoError
               /\ ret[p].v.error.message # Undefined

C7_NeverRejects ==
  /\ []C7_Shape
  /\ \A p \in Providers : (ret[p].st = "pending") ~> (ret[p].st = "fulfilled")

\* the sequence ended in failure while its first adapter call never settled
C7_Witness ==
  \E p \in Submitted :
    /\ ret[p].st = "fulfilled" /\ ~ret[p].v.ok
    /\ op[p][0] = "inflight"
    /\ \E n \in AttemptIdx : op[p][n] = "rejected"

(***************************************************************************)
(* C8: the caller of withTimeout observes exactly one settlement per call. *)
(* Whatever the order of the timer firing and the operation resolving or   *)
(* rejecting, both happening included, the first of these events fixes the *)
(* outcome, which is never replaced and never delivered a second time.     *)
(***************************************************************************)
C8_FirstEventDecides ==
  \A p \in Providers, n \in AttemptIdx :
    /\ observed[p][n] <= 1
    /\ (observed[p][n] = 1) <=> (wrap[p][n].st = "fulfilled")
    /\ wrap[p][n].st \in {"none", "pending", "fulfilled"}
    /\ timer[p][n] = "fired" => wrap[p][n] = Fulfilled(OnTimeout(Label(p), tmo[p]))
    /\ (timer[p][n] = "cleared" /\ op[p][n] = "resolved") =>
          wrap[p][n] = Fulfilled(OnResolved(AdapterText(p, n)))
    /\ (timer[p][n] = "cleared" /\ op[p][n] = "rejected") =>
          wrap[p][n] = Fulfilled(OnRejected(AdapterError(p, n)))
    /\ (wrap[p][n].st = "fulfilled") <=> (timer[p][n] \in {"fired", "cleared"})

C8_SettledForGood ==
  \A p \in Providers, n \in AttemptIdx :
    wrap[p][n].st = "fulfilled" => (wrap'[p][n] = wrap[p][n] /\ observed'[p][n] = observed[p][n])

C8_ExactlyOneSettlement == []C8_FirstEventDecides /\ [][C8_SettledForGood]_vars

\* the timer fired and the operation resolved afterwards: one settlement, the timeout
C8_Witness ==
  \E p \in Providers, n \in AttemptIdx :
    /\ timer[p][n] = "fired"
    /\ op[p][n] = "resolved"
    /\ observed[p][n] = 1
    /\ ~wrap[p][n].v.ok

(***************************************************************************)
(* C9: with an operation that never settles and a timeout of T,            *)
(* withTimeout resolves in the end, at the firing of the T timer at the    *)
(* latest, with ok = false and the error '<label> timed out after <T>ms'.  *)
(***************************************************************************)
C9_Pending(p, n) == wrap[p][n].st = "pending"

C9_TimedOut(p, n) ==
  /\ wrap[p][n].st = "fulfilled"
  /\ op[p][n] = "inflight" =>
       /\ wrap[p][n].v.ok = FALSE
       /\ wrap[p][n].v.error.message = <<"timed out after", Label(p), tmo[p]>>
       /\ timer[p][n] = "fired"

C9_AtTheFiring ==
  \A p \in Providers, n \in AttemptIdx :
    /\ timer[p][n] = "fired" => wrap[p][n].st = "fulfilled"
    /\ (wrap[p][n].st = "fulfilled" /\ op[p][n] = "inflight") => C9_TimedOut(p, n)
    /\ tmo[p] = IF p \notin Submitted \/ pc = "idle" THEN 0
                ELSE IF body.timeoutMs.type = "number" THEN body.timeoutMs.n
                ELSE IF body.useModelConfig THEN cfgTimeout[p]
                ELSE DefaultTimeoutMs

C9_TimeoutResolves ==
  /\ []C9_AtTheFiring
  /\ \A p \in Providers, n \in AttemptIdx : C9_Pending(p, n) ~> C9_TimedOut(p, n)

\* an operation still in flight whose wrapper timed out after the 50 ms of the request
C9_Witness ==
  \E p \in Providers :
    /\ op[p][0] = "inflight"
    /\ wrap[p][0] = Fulfilled([ok |-> FALSE, value |-> Undefined,
                               error |-> [message |-> <<"timed out after", Label(p), 50>>]])

(***************************************************************************)
(* C10: withTimeout does not cancel the operation when the timer fires:    *)
(* the operation stays in flight and may resolve or reject later, and that *)
(* late result is discarded: it changes neither the outcome the caller     *)
(* got nor any provider's result slot.                                     *)
(***************************************************************************)
C10_Step ==
  \A p \in Providers, n \in AttemptIdx :
    /\ (timer[p][n] = "armed" /\ timer'[p][n] = "fired") =>
          (op[p][n] = "inflight" /\ op'[p][n] = "inflight")
    /\ (timer[p][n] = "fired" /\ op'[p][n] # op[p][n]) =>
          /\ op[p][n] = "inflight" /\ op'[p][n] \in {"resolved", "rejected"}
          /\ wrap' = wrap /\ ret' = ret /\ observed' = observed
          /\ results' = results /\ job' = job /\ res' = res
          /\ calls' = calls /\ timer' = timer

C10_Abandoned ==
  \A p \in Providers, n \in AttemptIdx :
    op[p][n] \in {"none", "inflight", "resolved", "rejected"}

C10_LateResultDiscarded == []C10_Abandoned /\ [][C10_Step]_vars

\* after the answer, an abandoned call of a failed provider has resolved
C10_Witness ==
  /\ Answered
  /\ \E p \in Submitted, n \in AttemptIdx :
       /\ timer[p][n] = "fired"
       /\ op[p][n] = "resolved"
       /\ ~res.json[p].ok

(***************************************************************************)
(* C11: within one provider's retry sequence the attempts are strictly     *)
(* sequential: attempt N+1 never starts before attempt N settles.  At most *)
(* one attempt of a provider is unsettled at any time, an attempt that has *)
(* started has a settled predecessor, and an attempt starts in the very    *)
(* step in which its predecessor settles.                                  *)
(***************************************************************************)
\* attempt n of provider p has started: taskFactory() was called and withTimeout
\* returned its promise
C11_Started(p, n) == wrap[p][n].st # "none"

\* attempt n of provider p has settled
C11_Settled(p, n) == wrap[p][n].st \in {"fulfilled", "rejected"}

C11_InOrder ==
  \A p \in Providers :
    /\ \A n \in AttemptIdx :
         (n + 1 \in AttemptIdx /\ C11_Started(p, n + 1)) =>
            (C11_Settled(p, n) /\ ~wrap[p][n].v.ok)
    /\ Cardinality({n \in AttemptIdx : wrap[p][n].st = "pending"}) <= 1
    /\ Cardinality({n \in AttemptIdx : C11_Started(p, n)}) = calls[p]

C11_Step ==
  \A p \in Providers, n \in AttemptIdx :
    (n + 1 \in AttemptIdx /\ ~C11_Started(p, n + 1) /\ C11_Started(p, n + 1)') =>
       (~C11_Settled(p, n) /\ C11_Settled(p, n)')

C11_Sequential == []C11_InOrder /\ [][C11_Step]_vars

\* the third attempt is running while the adapter call of the first, abandoned at its
\* timeout, is still in flight
C11_Witness ==
  \E p \in Providers :
    /\ wrap[p][2].st = "pending"
    /\ op[p][0] = "inflight"
    /\ timer[p][0] = "fired"
    /\ C11_Settled(p, 1)

(***************************************************************************)
(* C12: in the HTTP path (/api/ask), when the request supplies no          *)
(* timeoutMs, each retry attempt is limited by a per-attempt timeout, and  *)
(* the attempt ceiling is 3.  The claim puts that timeout at 5000 ms, the  *)
(* default of runWithRetries' parameter (C12_AsClaimed); every call site   *)
(* passes eff.tmo, so the timeout is DEFAULTS.timeoutMs = 30000 ms, or     *)
(* with useModelConfig the timeoutMs loadProviderConfig yields for the     *)
(* provider (C12_DefaultTimeout).                                          *)
(***************************************************************************)
\* the request has been taken up and it carried no timeoutMs
C12_NoTimeoutSent == pc # "idle" /\ body.timeoutMs.type = "undefined"

\* what limits an attempt of provider p: the delay its timers are armed with, which
\* every timeout failure of the provider names
C12_LimitedBy(p, ms) ==
  /\ tmo[p] = ms
  /\ \A n \in AttemptIdx :
       timer[p][n] = "fired" =>
         wrap[p][n].v.error = [message |-> <<"timed out after", Label(p), ms>>]

C12_Ceiling(p) ==
  /\ attempts = 3
  /\ calls[p] <= 3
  /\ \A n \in AttemptIdx : n >= 3 => wrap[p][n].st = "none"

\* the claim as it stands: 5000 ms
C12_AsClaimed ==
  C12_NoTimeoutSent =>
    \A p \in Submitted : C12_LimitedBy(p, 5000) /\ C12_Ceiling(p)

C12_DefaultTimeout ==
  C12_NoTimeoutSent =>
    \A p \in Submitted :
      /\ C12_LimitedBy(p, IF body.useModelConfig THEN cfgTimeout[p] ELSE 30000)
      /\ ~body.useModelConfig => tmo[p] # 5000
      /\ C12_Ceiling(p)

\* no timeoutMs, no useModelConfig: the third attempt has timed out after 30000 ms
C12_Witness ==
  /\ C12_NoTimeoutSent
  /\ ~body.useModelConfig
  /\ \E p \in Submitted :
       /\ timer[p][2] = "fired"
       /\ wrap[p][2].v.error = [message |-> <<"timed out after", Label(p), 30000>>]
       /\ ret[p].st = "fulfilled"

(***************************************************************************)
(* C13: every ProviderOutcome in an /api/ask result has a text exactly     *)
(* when ok is true, an error exactly when ok is false, and a latencyMs     *)
(* that is a non-negative integer; this holds for the synthetic            *)
(* missing-credential outcomes and for the outcomes of a retry sequence    *)
(* alike.                                                                  *)
(***************************************************************************)
C13_WellFormed(o) ==
  /\ o.text # Undefined <=> o.ok = TRUE
  /\ o.error # Undefined <=> o.ok = FALSE
  /\ o.latencyMs \in Nat

C13_OutcomeShape ==
  /\ \A p \in DOMAIN results : C13_WellFormed(results[p])
  /\ Answered => \A p \in DOMAIN res.json : C13_WellFormed(res.json[p])

\* an answer that holds a synthetic outcome and the outcome of a retry sequence that
\* failed after two milliseconds
C13_Witness ==
  /\ Answered
  /\ \E p \in Providers, q \in Providers :
       /\ p \in DOMAIN res.json /\ res.json[p] = MissingKeyOutcome(p)
       /\ q \in DOMAIN res.json /\ q \in Submitted
       /\ ~res.json[q].ok
       /\ res.json[q].latencyMs >= 2

(***************************************************************************)
(* C14: each provider's result slot is written exactly once per /api/ask   *)
(* request and is never modified afterwards: once an outcome is stored in  *)
(* the aggregate, no later event (a second attempt, a late settlement of   *)
(* an abandoned attempt, another provider settling) overwrites it.  A slot *)
(* is written by the handler for a missing credential, or in the step in   *)
(* which the provider's job fulfils, and by nothing else.                  *)
(***************************************************************************)
C14_Step ==
  \A p \in Providers :
    /\ p \in DOMAIN results => (p \in DOMAIN results' /\ results'[p] = results[p])
    /\ (p \notin DOMAIN results /\ p \in DOMAIN results') =>
          \/ pc = "idle" /\ results'[p] = MissingKeyOutcome(p)
          \/ job[p] = "pending" /\ job'[p] = "fulfilled"

C14_Stored ==
  /\ \A p \in Providers : job[p] = "fulfilled" => p \in DOMAIN results
  /\ Answered => (res.json = results /\ DOMAIN results = AskedFor)

C14_WrittenOnce == []C14_Stored /\ [][C14_Step]_vars

\* after a provider's failure was stored, an abandoned call of its resolved late,
\* and another provider went through a second attempt and stored its outcome
C14_Witness ==
  \E p \in Submitted, q \in Submitted :
    /\ p # q
    /\ p \in DOMAIN results /\ ~results[p].ok
    /\ \E n \in AttemptIdx : timer[p][n] = "fired" /\ op[p][n] = "resolved"
    /\ q \in DOMAIN results /\ calls[q] >= 2

(***************************************************************************)
(* C15: history resolution precedence in /api/ask: if                      *)
(* histories[providerKey] is a sequence it is returned verbatim,           *)
(* regardless of modelId and of any legacy slot; otherwise, if modelId is  *)
(* a string and histories[modelId] is a sequence, that sequence is         *)
(* returned, ahead of the model1/model2/model3 concatenation and of the    *)
(* shared legacy history.                                                  *)
(***************************************************************************)
\* the handler has resolved the three histories
C15_Resolved == pc # "idle" /\ res.status # 400

\* the histories entry under the provider's own key, under the modelId
C15_Own(p) == IF p \in DOMAIN context.histories THEN context.histories[p] ELSE JUndefined
C15_Card ==
  IF context.modelId.type = "string" /\ context.modelId.key \in DOMAIN context.histories
  THEN context.histories[context.modelId.key]
  ELSE JUndefined

C15_Precedence ==
  C15_Resolved =>
    \A p \in Providers :
      /\ C15_Own(p).kind = "array" => hist[p] = C15_Own(p)
      /\ (C15_Own(p).kind # "array" /\ C15_Card.kind = "array") => hist[p] = C15_Card

\* all four sources are sequences: openai gets its own, gemini the card's
C15_Witness ==
  /\ C15_Resolved
  /\ context.histories["openai"] = JArray(<<"o1">>)
  /\ context.modelId = ModelId("model2")
  /\ context.histories["model2"] = JArray(<<"b1">>)
  /\ context.histories["model1"].kind = "array"
  /\ context.history.kind = "array"
  /\ hist["openai"] = JArray(<<"o1">>)
  /\ hist["gemini"] = JArray(<<"b1">>)

(***************************************************************************)
(* C16: history resolution fallbacks in /api/ask: when neither the         *)
(* provider key nor the modelId key resolves and at least one of           *)
(* histories.model1, model2, model3 is a sequence, the result is the       *)
(* concatenation of the present slots in the order model1, model2, model3, *)
(* absent slots skipped; when none is present, the result is the shared    *)
(* legacy history, or an empty sequence if that is absent (undefined or    *)
(* null).                                                                  *)
(***************************************************************************)
C16_Slot(k) ==
  IF context.histories[k].kind = "array" THEN context.histories[k].items ELSE <<>>

C16_Unresolved(p) == C15_Own(p).kind # "array" /\ C15_Card.kind # "array"

C16_SomeSlot == \E k \in {"model1", "model2", "model3"} : context.histories[k].kind = "array"

C16_Fallbacks ==
  C15_Resolved =>
    \A p \in Providers :
      /\ (C16_Unresolved(p) /\ C16_SomeSlot) =>
            hist[p] = JArray(C16_Slot("model1") \o C16_Slot("model2") \o C16_Slot("model3"))
      /\ (C16_Unresolved(p) /\ ~C16_SomeSlot) =>
            hist[p] = IF context.history.kind \in {"undefined", "null"}
                      THEN JArray(<<>>)
                      ELSE context.history

\* model1 and model3 are present, model2 is not: gemini gets model1 then model3
C16_Witness ==
  /\ C15_Resolved
  /\ C16_Unresolved("gemini")
  /\ context.histories["model2"].kind # "array"
  /\ context.history.kind = "array"
  /\ hist["gemini"] = JArray(<<"a1", "a2", "d1">>)

(***************************************************************************)
(* C17: the output of history resolution is always a sequence and never    *)
(* null, for every combination of histories, legacy history and modelId    *)
(* supplied by the caller, a legacy history that is present but is not a   *)
(* sequence included.                                                      *)
(***************************************************************************)
C17_AlwaysASequence ==
  C15_Resolved => \A p \in Providers : hist[p].kind = "array"

(***************************************************************************)
(* C20: attachment inlining truncation: for a request with one attachment  *)
(* whose content is 150,000 characters long, the prompt received by the    *)
(* adapter contains the first 100,000 characters of that attachment and a  *)
(* truncation marker, and does not contain the full content; an            *)
(* attachment of at most 100,000 characters is inlined in full with no     *)
(* truncation marker.  The claim has the marker follow the characters      *)
(* (C20_AsClaimed); the code puts it at the end of the attachment's header *)
(* line, before the ":\n" that precedes the characters (C20_Truncation).   *)
(***************************************************************************)
\* the prompts the adapter calls made so far received
C20_Received ==
  {given[c[1]][c[2]].prompt :
     c \in {d \in Providers \X AttemptIdx : given[d[1]][d[2]].called}}

C20_Marker == Lit(" [truncated]")

\* where text holds characters of the upload `of`
C20_At(text, of) == {i \in 1 .. Len(text) : text[i].kind = "content" /\ text[i].of = of}

\* the uploads of the request that have a string content
C20_Uploads ==
  IF context.attachments.kind = "array"
  THEN {context.attachments.items[i].content : i \in 1 .. Len(context.attachments.items)}
         \ {NoContent}
  ELSE {}

C20_OneUploadOf(len) ==
  /\ context.attachments.kind = "array"
  /\ Len(context.attachments.items) = 1
  /\ context.attachments.items[1].content.type = "string"
  /\ context.attachments.items[1].content.len = len

\* the claim as it stands: the marker comes after the characters
C20_AsClaimed ==
  \A text \in C20_Received :
    C20_OneUploadOf(150000) =>
      \E i \in 1 .. Len(text) :
        /\ text[i] = ContentChars(context.attachments.items[1].content.of, 100000)
        /\ \E j \in (i + 1) .. Len(text) : text[j] = C20_Marker
        /\ \A k \in 1 .. Len(text) : ~(text[k].kind = "content" /\ text[k].len > 100000)

C20_Truncation ==
  \A text \in C20_Received, c \in C20_Uploads :
    /\ Cardinality(C20_At(text, c.of)) = 1
    /\ \A i \in C20_At(text, c.of) :
         /\ i > 2 /\ text[i - 1] = Lit(":\n")
         /\ c.len > 100000 =>
              /\ text[i].len = 100000
              /\ text[i - 2] = C20_Marker
              /\ \A j \in (i + 1) .. Len(text) : text[j] # C20_Marker
         /\ c.len <= 100000 =>
              /\ text[i].len = c.len
              /\ text[i - 2] # C20_Marker
         /\ c.len <= 100000 /\ Cardinality(C20_Uploads) = 1 =>
              \A j \in 1 .. Len(text) : text[j] # C20_Marker

\* the one upload of 150,000 characters reached an adapter as its first 100,000,
\* under the marked header
C20_Witness ==
  /\ C20_OneUploadOf(150000)
  /\ \E text \in C20_Received, i \in 3 .. 20 :
       /\ i <= Len(text)
       /\ text[i] = ContentChars("f1", 100000)
       /\ text[i - 2] = C20_Marker

(***************************************************************************)
(* C18: in the streaming path (/api/stream) the delta events are emitted   *)
(* in exactly the order the text fragments arrive from the vendor, none is *)
(* reordered or dropped, and on vendor-side completion exactly one final   *)
(* event is emitted whose text equals the concatenation, in order, of all  *)
(* fragments forwarded as delta events.  A text fragment is a part's       *)
(* non-empty delta content; a part without one carries no fragment.        *)
(***************************************************************************)
\* the text fragments among the parts
RECURSIVE C18_Fragments(_)
C18_Fragments(parts) ==
  IF parts = <<>> THEN <<>>
  ELSE IF Head(parts).has /\ Head(parts).chars # <<>>
       THEN <<Head(parts).chars>> \o C18_Fragments(Tail(parts))
       ELSE C18_Fragments(Tail(parts))

\* the texts of the delta events among the events
RECURSIVE C18_Deltas(_)
C18_Deltas(events) ==
  IF events = <<>> THEN <<>>
  ELSE IF Head(events).type = "delta"
       THEN <<Head(events).chars>> \o C18_Deltas(Tail(events))
       ELSE C18_Deltas(Tail(events))

RECURSIVE C18_Concat(_)
C18_Concat(texts) ==
  IF texts = <<>> THEN <<>> ELSE Head(texts) \o C18_Concat(Tail(texts))

C18_Finals == {i \in 1 .. Len(sse.events) : sse.events[i].type = "done"}

\* the vendor's stream completed: the handler left the loop without a fault
C18_Completed ==
  /\ spc = "ended"
  /\ sse.headers
  /\ sse.events # <<>>
  /\ sse.events[Len(sse.events)].type # "error"

C18_InOrder ==
  /\ C18_Deltas(sse.events) = C18_Fragments(arrived)
  /\ Cardinality(C18_Finals) <= 1
  /\ \A i \in C18_Finals :
       /\ i = Len(sse.events)
       /\ sse.events[i].chars = C18_Concat(C18_Deltas(sse.events))
       /\ sse.events[i].chars = C18_Concat(C18_Fragments(arrived))
  /\ C18_Completed => Cardinality(C18_Finals) = 1

\* an event, once written, stays where it is
C18_Step ==
  /\ Len(sse'.events) >= Len(sse.events)
  /\ SubSeq(sse'.events, 1, Len(sse.events)) = sse.events

C18_StreamOrder == []C18_InOrder /\ [][C18_Step]_vars

\* three parts, the second without text: two deltas and the final text "abc"
C18_Witness ==
  /\ arrived = <<Delta(<<"a">>), NoDelta, Delta(<<"b", "c">>)>>
  /\ sse.ended
  /\ sse.events = <<DeltaEvent(<<"a">>), DeltaEvent(<<"b", "c">>),
                    DoneEvent(<<"a", "b", "c">>, 0)>>

(***************************************************************************)
(* C19: in the streaming path, on a fault at any point (missing            *)
(* credential, failure to open the vendor stream, failure in the middle of *)
(* the stream after some deltas were sent) a single error event is emitted *)
(* and the channel is terminated: every accepted stream request ends with  *)
(* exactly one terminal event (done or error, never both), and no event is *)
(* emitted after the terminal event.                                       *)
(***************************************************************************)
C19_Terminals == {i \in 1 .. Len(sse.events) : sse.events[i].type \in {"done", "error"}}

\* the request passed the prompt check: the event-stream headers are out
C19_Accepted == sse.headers

C19_OneTerminal ==
  /\ Cardinality(C19_Terminals) <= 1
  /\ \A i \in C19_Terminals : i = Len(sse.events) /\ sse.ended
  /\ (C19_Accepted /\ sse.ended) => Cardinality(C19_Terminals) = 1
  /\ (C19_Accepted /\ ~hasKey["openai"]) =>
        (sse.ended /\ sse.events = <<ErrorEvent("Missing OPENAI_API_KEY")>>)
  /\ ~C19_Accepted => sse.events = <<>>

\* a fault writes one error event and ends the channel; an ended channel stays as it is
C19_Step ==
  /\ sse.ended => sse' = sse
  /\ (spc \in {"opening", "streaming"} /\ spc' = "ended"
        /\ sse'.events[Len(sse'.events)].type = "error") =>
       /\ sse'.ended
       /\ Len(sse'.events) = Len(sse.events) + 1
       /\ SubSeq(sse'.events, 1, Len(sse.events)) = sse.events

C19_SingleTerminal == []C19_OneTerminal /\ [][C19_Step]_vars

\* two deltas went out, then the vendor's stream failed
C19_Witness ==
  /\ sse.ended
  /\ Len(sse.events) = 3
  /\ sse.events[1].type = "delta" /\ sse.events[2].type = "delta"
  /\ sse.events[3] = ErrorEvent("stream failed")

(***************************************************************************)
(* C21: in /api/ask the attachment-prepending step is applied once, before *)
(* any per-provider request is built: every provider adapter call of the   *)
(* request, on every retry attempt, receives the identical augmented       *)
(* prompt text.                                                            *)
(***************************************************************************)
\* the adapter calls made so far
C21_Calls == {c \in Providers \X AttemptIdx : given[c[1]][c[2]].called}

C21_SamePrompt ==
  /\ \A c \in C21_Calls, d \in C21_Calls :
       given[c[1]][c[2]].prompt = given[d[1]][d[2]].prompt
  /\ \A c \in C21_Calls :
       /\ given[c[1]][c[2]].prompt = effectivePrompt
       /\ effectivePrompt = BuildPromptWithAttachments(body.prompt, context.attachments)
  /\ \A p \in Providers, n \in AttemptIdx : given[p][n].called <=> op[p][n] # "none"

\* the prompt is built by the handler's first step and by no later one
C21_Step ==
  /\ pc # "idle" => effectivePrompt' = effectivePrompt
  /\ \A p \in Providers, n \in AttemptIdx : given[p][n].called => given'[p][n] = given[p][n]

C21_BuiltOnce == []C21_SamePrompt /\ [][C21_Step]_vars

\* two providers, one in its third attempt and one in its second, all five calls with
\* the prompt that carries the truncated upload
C21_Witness ==
  \E p \in Providers, q \in Providers :
    /\ p # q
    /\ given[p][2].called /\ given[q][1].called
    /\ \E i \in 1 .. Len(given[p][2].prompt) :
         given[p][2].prompt[i] = ContentChars("f1", MaxPer)
    /\ given[q][1].prompt = given[p][0].prompt

(***************************************************************************)
(* C22: POST /api/draw answers with HTTP 200 and communicates success or   *)
(* failure only through the ok field ({ok: true, image} or                 *)
(* {ok: false, error}).  The claim extends this to every request body, one *)
(* with a missing or non-string prompt included (C22_AsClaimed); the code  *)
(* refuses such a body with HTTP 400 and {error: 'Missing prompt'}, and    *)
(* answers 200 with the ok field for every prompt that is a non-empty      *)
(* string (C22_OkField).                                                   *)
(***************************************************************************)
C22_Answered == dres.status # 0

\* an answer that tells success from failure by its ok field
C22_ByOkField ==
  /\ dres.status = 200
  /\ \/ dres.ok = "true" /\ dres.image # <<>> /\ dres.error = ""
     \/ dres.ok = "false" /\ dres.image = <<>> /\ dres.error # ""

\* the claim as it stands: every answer is a 200 with the ok field
C22_AsClaimed == C22_Answered => C22_ByOkField

\* the request's prompt is a non-empty string
C22_PromptGiven == body.prompt.type = "string" /\ body.prompt.chars # <<>>

C22_OkField ==
  /\ (C22_Answered /\ C22_PromptGiven) => C22_ByOkField
  /\ (C22_Answered /\ ~C22_PromptGiven) =>
        (dres.status = 400 /\ dres.ok = "absent" /\ dres.error = "Missing prompt")
  /\ ~C22_PromptGiven => dpc # "drawing"
  /\ dpc = "done" <=> C22_Answered

\* a prompt that is a number was refused with status 400
C22_Witness ==
  /\ body.prompt = ANumber
  /\ hasKey["openai"]
  /\ dres = DrawRefused

(***************************************************************************)
(* C23: prompt validation: POST /api/ask answers 400 when the prompt is    *)
(* missing or blank (absent, not a string, empty or whitespace-only) and   *)
(* POST /api/stream answers 400 when the prompt is missing; in both cases  *)
(* the request is rejected before any provider adapter or vendor call is   *)
(* made and before any stream event is emitted.                            *)
(***************************************************************************)
\* the prompt is absent, not a string, empty or whitespace-only
C23_Blank ==
  \/ body.prompt.type # "string"
  \/ \A i \in 1 .. Len(body.prompt.chars) : body.prompt.chars[i] = " "

\* the prompt is absent or the empty string
C23_Missing ==
  \/ body.prompt.type = "undefined"
  \/ body.prompt.type = "string" /\ body.prompt.chars = <<>>

C23_NoAdapterCall ==
  \A p \in Providers, n \in AttemptIdx :
    /\ calls[p] = 0 /\ job[p] = "none"
    /\ op[p][n] = "none" /\ timer[p][n] = "none" /\ ~given[p][n].called

C23_NoVendorStream ==
  /\ spc \in {"idle", "ended"}
  /\ ~sse.headers /\ sse.events = <<>> /\ arrived = <<>>

C23_Rejected ==
  /\ C23_Blank =>
       /\ C23_NoAdapterCall
       /\ pc # "idle" => (pc = "done" /\ res.status = 400 /\ res.error = "Missing prompt"
                            /\ results = <<>>)
  /\ (~C23_Blank /\ pc # "idle") => (res.status # 400 /\ ~C23_NoAdapterCall)
  /\ C23_Missing =>
       /\ C23_NoVendorStream
       /\ spc # "idle" => (sse.status = 400 /\ sse.ended)
  /\ (~C23_Missing /\ spc # "idle") => (sse.status = 200 /\ sse.headers)

\* both endpoints have refused a body without a prompt
C23_Witness ==
  /\ body.prompt = NotSent
  /\ res.status = 400
  /\ sse.status = 400

(***************************************************************************)
(* C24: configuration precedence when useModelConfig is set: for the named *)
(* model family (gpt-5-mini / gpt-5-mini-2025-08-07) a value from the      *)
(* model-specific override file takes precedence over the value from the   *)
(* per-provider file, which takes precedence over the hard-coded base; a   *)
(* request-level override takes precedence over all of them.  This holds   *)
(* for the effective system, temperature and maxTokens that the OpenAI     *)
(* adapter sends.                                                          *)
(***************************************************************************)
\* the payload of a request with useModelConfig for a model of the family is built
C24_Case ==
  /\ payload.built
  /\ body.useModelConfig
  /\ payload.model \in {"gpt-5-mini", "gpt-5-mini-2025-08-07"}

\* the value the stated precedence gives: request, model file, provider file, base
C24_Expected(f) ==
  IF settings[f].has THEN settings[f]
  ELSE IF files.gpt5mini.present /\ files.gpt5mini[f].has THEN files.gpt5mini[f]
  ELSE IF files.openai.present /\ files.openai[f].has THEN files.openai[f]
  ELSE BaseConfig[f]

C24_SystemAsClaimed == C24_Case => payload.system = C24_Expected("system")

\* no temperature is sent for a model of the family; if one is, it is the stated one
C24_TemperatureAsClaimed ==
  (C24_Case /\ payload.temperature.has) =>
    payload.temperature = C24_Expected("temperature")

C24_MaxTokensAsClaimed ==
  C24_Case => payload.max_completion_tokens = C24_Expected("maxTokens")

C24_AsClaimed ==
  /\ C24_SystemAsClaimed
  /\ C24_TemperatureAsClaimed
  /\ C24_MaxTokensAsClaimed

(***************************************************************************)
(* C25: provider noninterference: for two /api/ask runs with the same      *)
(* request that differ only in how one provider B behaves (succeeds,       *)
(* fails, is slow, never settles), the outcome recorded for any other      *)
(* provider A (its ok flag, text and error) is identical in both runs.     *)
(* On one run this is: after submission no step changes the state of more  *)
(* than one provider, and the outcome recorded for a provider is           *)
(* determined by the request and by the provider's own last attempt.       *)
(***************************************************************************)
\* the recorded outcome of p, without its latency
C25_Outcome(p) ==
  IF p \in DOMAIN results
  THEN {<<results[p].ok, results[p].text, results[p].error>>}
  ELSE {}

\* everything the handler holds for provider p
C25_Own(p) ==
  <<wrap[p], op[p], timer[p], calls[p], ret[p], job[p], given[p], observed[p],
    C25_Outcome(p)>>

C25_Step ==
  pc # "idle" =>
    \A a \in Providers, b \in Providers :
      (a # b /\ C25_Own(b)' # C25_Own(b)) => C25_Own(a)' = C25_Own(a)

C25_OwnOutcome ==
  \A p \in DOMAIN results :
    IF p \in Submitted
    THEN LET r == wrap[p][calls[p] - 1].v IN
         /\ wrap[p][calls[p] - 1].st = "fulfilled"
         /\ results[p].ok = r.ok
         /\ results[p].text = (IF r.ok THEN r.value ELSE Undefined)
         /\ results[p].error = (IF r.ok THEN Undefined ELSE ErrorText(r.error))
    ELSE C25_Outcome(p) = {<<FALSE, Undefined, MissingKeyOutcome(p).error>>}

C25_Noninterference == []C25_OwnOutcome /\ [][C25_Step]_vars

\* A's success is recorded while B, after a timeout and a rejection, is still at work
C25_Witness ==
  \E a \in Submitted, b \in Submitted :
    /\ a # b
    /\ a \in DOMAIN results /\ results[a].ok
    /\ job[b] = "pending"
    /\ \E n \in AttemptIdx : timer[b][n] = "fired"
    /\ \E n \in AttemptIdx : op[b][n] = "rejected"

(***************************************************************************)
(* C26: withTimeout: if the operation settles before the timer fires, the  *)
(* outcome is {ok:true, value} carrying the operation's resolved value     *)
(* when it resolved, and {ok:false, error} carrying the operation's own    *)
(* rejection reason when it rejected; in that case the timer is cleared    *)
(* and no timeout error is ever produced for that call.                    *)
(***************************************************************************)
\* the adapter call of attempt n of p settled while the timer had not fired
C26_OperationFirst(p, n) ==
  op[p][n] \in {"resolved", "rejected"} /\ timer[p][n] # "fired"

C26_Outcome ==
  \A p \in Providers, n \in AttemptIdx :
    C26_OperationFirst(p, n) =>
      /\ timer[p][n] = "cleared"
      /\ wrap[p][n].st = "fulfilled"
      /\ op[p][n] = "resolved" =>
           wrap[p][n].v = [ok |-> TRUE, value |-> AdapterText(p, n), error |-> NoError]
      /\ op[p][n] = "rejected" =>
           wrap[p][n].v = [ok |-> FALSE, value |-> Undefined, error |-> AdapterError(p, n)]

\* once the operation was first, the timer does not fire and the outcome stays
C26_Step ==
  \A p \in Providers, n \in AttemptIdx :
    C26_OperationFirst(p, n) =>
      /\ C26_OperationFirst(p, n)'
      /\ wrap'[p][n] = wrap[p][n]

C26_OperationSettlesFirst == []C26_Outcome /\ [][C26_Step]_vars

\* a sequence whose first attempt was rejected and whose second was resolved,
\* both before their timers
C26_Witness ==
  \E p \in Submitted :
    /\ C26_OperationFirst(p, 0) /\ op[p][0] = "rejected"
    /\ C26_OperationFirst(p, 1) /\ op[p][1] = "resolved"
    /\ p \in DOMAIN results

(***************************************************************************)
(* C27: runWithRetries retries uniformly: whether another attempt is made  *)
(* depends only on the previous attempt being not ok and on the attempt    *)
(* index being below the ceiling, never on the kind of error (timeout,     *)
(* authentication failure, malformed response, transport fault); and the   *)
(* next attempt is started with no backoff delay after the previous        *)
(* attempt's settlement.                                                   *)
(***************************************************************************)
\* attempt n of p settles in this step
C27_Settling(p, n) == wrap[p][n].st = "pending" /\ wrap'[p][n].st = "fulfilled"

\* attempt n + 1 of p is started in this very step: no timer lies in between
C27_StartsNext(p, n) ==
  /\ n + 1 \in AttemptIdx
  /\ calls'[p] = n + 2
  /\ wrap'[p][n + 1].st = "pending"
  /\ op'[p][n + 1] = "inflight"
  /\ timer'[p][n + 1] = "armed"
  /\ now' = now

\* the sequence ends in this step with the settlement of attempt n
C27_Ends(p, n) ==
  /\ calls'[p] = calls[p]
  /\ ret'[p] = Fulfilled(wrap'[p][n].v)

C27_Step ==
  \A p \in Providers, n \in AttemptIdx :
    C27_Settling(p, n) =>
      IF ~wrap'[p][n].v.ok /\ n + 1 < attempts
      THEN C27_StartsNext(p, n)
      ELSE C27_Ends(p, n)

\* the kinds of failure of the attempts of p made
C27_Kinds(p) ==
  {wrap[p][n].v.error.message[1] : n \in {m \in Made(p) : Failed(p, m)}}

\* an attempt is made beyond the first only after a failure, below the ceiling
C27_Made ==
  \A p \in Providers :
    /\ calls[p] <= attempts
    /\ \A n \in Made(p) : n + 1 < calls[p] => Failed(p, n)
    /\ \A n \in Made(p) : (Failed(p, n) /\ n + 1 < attempts) => n + 1 < calls[p]

C27_UniformRetry == []C27_Made /\ [][C27_Step]_vars

\* a timeout, an authentication failure, a malformed response and a transport fault,
\* one after the other
C27_Witness ==
  \E p \in Submitted :
    /\ C27_Kinds(p) = FaultKinds \cup {"timed out after"}
    /\ p \in DOMAIN results

(***************************************************************************)
(* C28: the latencyMs of a credentialed provider's outcome in /api/ask is  *)
(* the wall-clock time from submission of the provider's job to the        *)
(* settlement of its whole retry sequence: it is cumulative over all       *)
(* attempts made (at least the sum of the durations of the failed attempts *)
(* plus the last one), not the duration of the last attempt only.          *)
(***************************************************************************)
\* the outcome of p is stored in this step
C28_Storing(p) == p \notin DOMAIN results /\ p \in DOMAIN results'

C28_Step ==
  \A p \in Submitted :
    \* the instant of submission is taken once
    /\ pc # "idle" => startedAt'[p] = startedAt[p]
    /\ C28_Storing(p) =>
         \* from submission to now, the settlement of the sequence
         /\ results'[p].latencyMs = now - startedAt[p]
         \* the durations of all attempts made, the last one included
         /\ results'[p].latencyMs = spent'[p]
         /\ results'[p].latencyMs >= now - began[p]

\* the first attempt starts at submission, the attempts follow each other
C28_Timeline ==
  \A p \in Submitted :
    pc # "idle" =>
      /\ startedAt[p] <= began[p] /\ began[p] <= now
      /\ spent[p] = (IF SequencePending(p) THEN began[p] ELSE results[p].latencyMs + startedAt[p])
                      - startedAt[p]

C28_CumulativeLatency == []C28_Timeline /\ [][C28_Step]_vars

\* two failed attempts and a last one, each of which took time: the latency is more
\* than the time the last attempt took
C28_Witness ==
  \E p \in Submitted :
    /\ p \in DOMAIN results
    /\ calls[p] = 3
    /\ results[p].latencyMs = spent[p]
    /\ startedAt[p] < began[p]
    /\ began[p] < startedAt[p] + results[p].latencyMs

(***************************************************************************)
(* C29: the streaming path makes a single best-effort attempt: exactly one *)
(* vendor streaming call is issued per accepted /api/stream request, it is *)
(* never retried after a fault, and no deadline is applied to it (a fault  *)
(* is reported as an error event on the open channel, not returned as a    *)
(* value).                                                                 *)
(***************************************************************************)
\* the request has a prompt and the credential is configured: the vendor is called
C29_Accepted == spc # "idle" /\ ~StreamPromptMissing(body.prompt) /\ hasKey["openai"]

C29_OneCall ==
  /\ creates = (IF C29_Accepted THEN 1 ELSE 0)
  \* the path arms no timer and reports no timeout
  /\ \A p \in Providers, n \in AttemptIdx : timer[p][n] = "none"
  /\ \A i \in 1 .. Len(sse.events) :
       sse.events[i].type = "error" =>
         sse.events[i].message \in {"Missing OPENAI_API_KEY", "create failed", "stream failed"}

C29_Step ==
  \* the vendor is called in the first step of the handler and never again
  /\ spc # "idle" => creates' = creates
  \* while the vendor call is under way, the passing of time ends nothing
  /\ (spc \in {"opening", "streaming"} /\ now' # now) => (spc' = spc /\ sse' = sse)
  \* a fault of the vendor call ends the request with an error event on the open
  \* channel: the status and the headers already sent stay
  /\ (spc \in {"opening", "streaming"} /\ spc' = "ended"
        /\ sse'.events[Len(sse'.events)].type # "done") =>
       /\ sse.status = 200 /\ sse.headers
       /\ sse'.status = 200 /\ sse'.headers /\ sse'.ended
       /\ sse'.events[Len(sse'.events)].type = "error"
       /\ SubSeq(sse'.events, 1, Len(sse.events)) = sse.events

C29_SingleAttempt == []C29_OneCall /\ [][C29_Step]_vars

\* the vendor's stream failed after time had passed and a delta had gone out
C29_Witness ==
  /\ C29_Accepted
  /\ spc = "ended"
  /\ creates = 1
  /\ now = MaxNow
  /\ Len(sse.events) >= 2
  /\ sse.events[1].type = "delta"
  /\ sse.events[Len(sse.events)] = ErrorEvent("stream failed")

(***************************************************************************)
(* C30: usage log: after any sequence of recordUsage calls the log holds   *)
(* at most 100 entries, namely the most recently recorded ones (the oldest *)
(* are evicted first), and getUsageLog returns them most-recent-first as a *)
(* copy, so that the returned list is the reverse of insertion order and   *)
(* changing it does not change the log.                                    *)
(***************************************************************************)
\* how many entries the log holds after `recorded` recordings
C30_Kept == IF recorded <= 100 THEN recorded ELSE 100

\* the log holds the last C30_Kept entries recorded, in the order of recording
C30_MostRecent ==
  /\ Len(usageLog) <= 100
  /\ Len(usageLog) = C30_Kept
  /\ \A i \in 1 .. Len(usageLog) : usageLog[i] = recorded - C30_Kept + (i - 1)

C30_Step ==
  \* the log changes by a recording and by nothing else: not by reading it, not by
  \* what is done to the list that was read
  /\ usageLog' # usageLog => recorded' = recorded + 1
  /\ (usageLog' # usageLog /\ ~usageView.shared) => usageView' = usageView
  \* a list read is the log from its latest entry back to its oldest
  /\ (recorded' = recorded /\ usageView' # usageView /\ usageView'.entries # <<>>) =>
       /\ Len(usageView'.entries) = Len(usageLog)
       /\ \A i \in 1 .. Len(usageLog) :
            usageView'.entries[i] = usageLog[Len(usageLog) + 1 - i]
       /\ usageView'.entries[1] = recorded - 1
       /\ ~usageView'.shared

C30_BoundedMostRecentFirst == []C30_MostRecent /\ [][C30_Step]_vars

\* the log is full and has evicted entries; the list read after the first eviction
\* starts with the entry that was the latest then, while the log has moved on
C30_Witness ==
  /\ recorded = MaxRecorded
  /\ Len(usageLog) = 100
  /\ usageLog[1] = MaxRecorded - 100
  /\ Len(usageView.entries) = 100
  /\ usageView.entries[1] = 100
  /\ usageView.entries[100] = 1

(***************************************************************************)
(* C31: transcript translation in every adapter (OpenAI, Claude, Gemini)   *)
(* and in the streaming path: a history turn whose content is empty or is  *)
(* not a string is dropped and never sent to the vendor as an empty        *)
(* message; the remaining turns keep their relative order; and the current *)
(* prompt is always appended as the last message with the user role.       *)
(***************************************************************************)
\* the turns of the transcript that carry a non-empty string, by position
C31_Full ==
  IF ~IsArray(transcript) THEN {}
  ELSE {i \in 1 .. Len(transcript.items) :
          /\ transcript.items[i].content.type = "string"
          /\ transcript.items[i].content.text # <<>>}

\* the position in the transcript of the k-th such turn
C31_Nth(k) ==
  CHOOSE i \in C31_Full : Cardinality({j \in C31_Full : j <= i}) = k

\* the messages of a vendor call that stand for turns: all but the leading system
\* instruction and the closing prompt
C31_FromTurns(v) ==
  LET lead == IF v \in {"openai", "stream"} /\ settings.system.has THEN 1 ELSE 0
  IN SubSeq(sent[v].messages, lead + 1, Len(sent[v].messages) - 1)

C31_Translated ==
  \A v \in Vendors :
    sent[v].built =>
      /\ \A i \in 1 .. Len(sent[v].messages) : sent[v].messages[i].content # <<>>
      /\ Len(C31_FromTurns(v)) = Cardinality(C31_Full)
      /\ \A k \in 1 .. Len(C31_FromTurns(v)) :
           C31_FromTurns(v)[k].content = transcript.items[C31_Nth(k)].content.text
      /\ sent[v].messages[Len(sent[v].messages)]
           = Message("user", <<PromptChars(body.prompt.chars)>>)

\* every vendor got a transcript of four turns, two of them without a text
C31_Witness ==
  /\ \A v \in Vendors : sent[v].built
  /\ IsArray(transcript) /\ Len(transcript.items) = 4
  /\ Cardinality(C31_Full) = 2
  /\ transcript.items[2].content.type = "number"
  /\ transcript.items[4].content = Text("")

(***************************************************************************)
(* C32: role mapping in the adapters: the generic assistant role is mapped *)
(* to the vendor's equivalent label ('assistant' for OpenAI and Claude,    *)
(* 'model' for Gemini); the OpenAI adapter keeps the system role as        *)
(* 'system'; every other or unknown role (and, for Claude and Gemini, the  *)
(* system role) is mapped to 'user'.  Every message sent therefore carries *)
(* a role from that vendor's allowed set.                                  *)
(***************************************************************************)
\* the roles a vendor accepts
C32_Allowed(v) ==
  CASE v = "claude" -> {"user", "assistant"}
    [] v = "gemini" -> {"user", "model"}
    [] OTHER        -> {"system", "user", "assistant"}

\* the label the claim gives to a turn of role r sent to vendor v
C32_Label(v, r) ==
  IF r = "assistant" THEN (IF v = "gemini" THEN "model" ELSE "assistant")
  ELSE IF r = "system" /\ v \in {"openai", "stream"} THEN "system"
  ELSE "user"

C32_RolesMapped ==
  \A v \in Vendors :
    sent[v].built =>
      /\ \A i \in 1 .. Len(sent[v].messages) : sent[v].messages[i].role \in C32_Allowed(v)
      /\ \A k \in 1 .. Len(C31_FromTurns(v)) :
           C31_FromTurns(v)[k].role = C32_Label(v, transcript.items[C31_Nth(k)].role)

\* every vendor got a user, a system, an assistant and a tool turn
C32_Witness ==
  /\ \A v \in Vendors : sent[v].built
  /\ transcript = JArray(<<Turn("user", Text("q1")), Turn("system", Text("s1")),
                           Turn("assistant", Text("a1")), Turn("tool", Text("t1"))>>)
  /\ sent["gemini"].messages[3].role = "model"
  /\ sent["claude"].messages[2].role = "user"

(***************************************************************************)
(* C33: OpenAI parameter shape by model family: when the model name        *)
(* matches the newer family pattern (contains 'gpt-5' case-insensitively,  *)
(* or contains '-2025-') the chat-completion payload never contains a      *)
(* temperature and carries the output length only as                       *)
(* max_completion_tokens; otherwise it carries the numeric temperature and *)
(* the output length only as max_tokens.  No payload ever contains both    *)
(* max_tokens and max_completion_tokens.  The same rule applies in         *)
(* askOpenAI and in the streaming path.                                    *)
(***************************************************************************)
\* the model names of this module that match /gpt-5/i or /-2025-/
C33_NewFamily ==
  {"gpt-5-mini", "gpt-5-mini-2025-08-07", "gpt-5", "GPT-5", "gpt-4.1-2025-04-14"}

\* a numeric temperature reached the place where the payload is built
C33_TemperatureGiven(v) ==
  IF v = "stream" THEN settings.temperature.has ELSE OpenAIArgs.temperature.has

C33_Shape(v) ==
  LET p == sent[v].payload IN
  /\ ~(p.max_tokens.has /\ p.max_completion_tokens.has)
  /\ IF p.model \in C33_NewFamily
     THEN ~p.temperature.has /\ ~p.max_tokens.has
     ELSE /\ ~p.max_completion_tokens.has
          /\ C33_TemperatureGiven(v) => p.temperature.has

C33_AsClaimed ==
  \A v \in {"openai", "stream"} : sent[v].built => C33_Shape(v)

\* the rule in askOpenAI alone
C33_AskOpenAI == sent["openai"].built => C33_Shape("openai")

(***************************************************************************)
(* C34: deep-research mode of askOpenAI: whenever the model identifier     *)
(* matches 'deep-research' (case-insensitively) the adapter issues only    *)
(* the long-running call shape and never a chat-completion call; its       *)
(* single input string is the planner block, then the optional system      *)
(* instruction, then each non-empty transcript turn rendered as            *)
(* '<Role>: <content>' in order, then the prompt, joined by blank lines;   *)
(* temperature and max-token values are ignored; and the returned text is  *)
(* the 'final text' field when it is a non-empty string, otherwise the     *)
(* in-order concatenation of the text fragments of the structured output   *)
(* list.                                                                   *)
(***************************************************************************)
\* the model names of this module that match /deep-research/i
C34_Research == sent["openai"].payload.model \in {"o4-mini-deep-research", "O3-Deep-Research"}

\* the turns of the transcript that carry a non-empty string, rendered
C34_Rendered ==
  [k \in 1 .. Cardinality(C31_Full) |->
     LET m == transcript.items[C31_Nth(k)]
         role == CASE m.role = "assistant" -> "Assistant"
                   [] m.role = "system"    -> "System"
                   [] OTHER                -> "User"
     IN <<Lit(role), Lit(": ")>> \o m.content.text]

\* the parts of the input, in the order of the claim
C34_Parts ==
  << <<Lit("System: "), Lit("DEEP_RESEARCH_PLANNER_INSTRUCTIONS")>> >>
    \o (IF sent["openai"].payload.system.has
        THEN << <<Lit("System: "), Lit(sent["openai"].payload.system.v)>> >> ELSE <<>>)
    \o C34_Rendered
    \o << <<Lit("User: "), PromptChars(body.prompt.chars)>> >>

\* the parts with a blank line between each two
RECURSIVE C34_Joined(_)
C34_Joined(parts) ==
  IF Len(parts) = 1 THEN parts[1]
  ELSE C34_Joined(SubSeq(parts, 1, Len(parts) - 1)) \o <<Lit("\n\n")>> \o parts[Len(parts)]

\* the text fragments of the output list, item by item
RECURSIVE C34_Stitched(_)
C34_Stitched(out) ==
  IF out = <<>> THEN <<>>
  ELSE LET item == out[Len(out)]
           own == IF item.text.type = "string" THEN item.text.text
                  ELSE IF item.content.kind # "array" THEN <<>>
                  ELSE C34_Stitched([i \in 1 .. Len(item.content.items) |->
                                       OutputItem(item.content.items[i].text, JUndefined)])
       IN C34_Stitched(SubSeq(out, 1, Len(out) - 1)) \o own

C34_DeepResearch ==
  (sent["openai"].built /\ C34_Research) =>
    /\ sent["openai"].payload.api = "responses.create"
    /\ sent["openai"].messages = <<>>
    /\ sent["openai"].input = C34_Joined(C34_Parts)
    /\ ~sent["openai"].payload.temperature.has
    /\ ~sent["openai"].payload.max_tokens.has
    /\ ~sent["openai"].payload.max_completion_tokens.has
    /\ returned.done =>
         returned.text =
           (IF response.output_text.type = "string" /\ response.output_text.text # <<>>
            THEN response.output_text.text
            ELSE IF response.output.kind = "array" THEN C34_Stitched(response.output.items)
            ELSE <<>>)

\* a research call with a system instruction, a temperature, a token limit and a
\* transcript of four turns returned the stitched output: output_text was empty
C34_Witness ==
  /\ C34_Research
  /\ settings.system.has /\ settings.temperature.has /\ settings.maxTokens.has
  /\ IsArray(transcript) /\ Len(transcript.items) = 4
  /\ response.output_text = Text("")
  /\ returned.done
  /\ returned.text = <<Lit("x1"), Lit("y1"), Lit("y2"), Lit("x2")>>

(***************************************************************************)
(* C35: request isolation: when several /api/ask requests are handled      *)
(* concurrently and their provider settlements interleave arbitrarily,     *)
(* each response contains only outcomes produced by that request's own     *)
(* provider jobs; no outcome, prompt or transcript of one request ever     *)
(* appears in another request's aggregate.                                 *)
(***************************************************************************)
\* the outcome in the aggregate of invocation r came of r's own job for p, which
\* was given r's prompt and r's transcript
C35_Own(r, p) ==
  LET o == replied[r].json[p]
  IN /\ o.provider = p
     /\ asked[r].providers[p] = "true"
     /\ \/ ~hasKey[p] /\ o = MissingKeyOutcome(p)
        \/ /\ hasKey[p]
           /\ callsOf[r][p].called
           /\ callsOf[r][p].prompt = <<PromptChars(asked[r].prompt.chars)>>
           /\ callsOf[r][p].history =
                (IF asked[r].history.kind = "undefined" THEN JArray(<<>>) ELSE asked[r].history)
           /\ IF o.ok THEN o.text = AnswerTo(p, r) ELSE o.error = RejectionTo(p, r).message

C35_Isolated ==
  \A r \in Invocations :
    replied[r].status = 200 =>
      /\ DOMAIN replied[r].json = {p \in Providers : asked[r].providers[p] = "true"}
      /\ \A p \in DOMAIN replied[r].json : C35_Own(r, p)

\* two requests with different prompts, transcripts and providers were in flight
\* together: the first has replied with two outcomes of its own, the second has
\* one of its settlements and has not replied
C35_Witness ==
  /\ replied[1].status = 200 /\ DOMAIN replied[1].json = {"openai", "claude"}
  /\ replied[1].json["openai"].ok /\ ~replied[1].json["claude"].ok
  /\ asked[2].arrived /\ asked[2].prompt # asked[1].prompt
  /\ asked[2].history # asked[1].history
  /\ replied[2].status = 0
  /\ jobsOf[2]["openai"] = "fulfilled" /\ jobsOf[2]["claude"] = "pending"

(***************************************************************************)
(* C36: a result delivered by an abandoned attempt after its deadline      *)
(* never rescues the retry sequence: if attempt N timed out and its        *)
(* underlying call later succeeds, while attempt N+1 is in flight or after *)
(* the sequence ended, the provider's outcome is still decided only by the *)
(* attempts that settled within their own deadlines (so the final outcome  *)
(* can be a failure although an abandoned call succeeded), and the late    *)
(* success does not stop later attempts from being issued.                 *)
(***************************************************************************)
\* the adapter call of attempt n of p resolved before its timer fired
C36_InTime(p, n) == op[p][n] = "resolved" /\ timer[p][n] = "cleared"

\* the adapter call of attempt n of p succeeded after withTimeout had given up on it
C36_Late(p, n) == op[p][n] = "resolved" /\ timer[p][n] = "fired"

\* the sequence of p has ended: its outcome is the one of its last attempt, a success
\* exactly if that attempt's call resolved within its deadline
C36_DecidedInTime ==
  \A p \in Providers :
    ret[p].st = "fulfilled" =>
      LET last == calls[p] - 1
      IN /\ ret[p].v = wrap[p][last].v
         /\ ret[p].v.ok <=> C36_InTime(p, last)
         /\ \A n \in 0 .. (last - 1) : ~C36_InTime(p, n)
         /\ (\A n \in 0 .. last : ~C36_InTime(p, n)) =>
               (~ret[p].v.ok /\ (p \in DOMAIN results => ~results[p].ok))

\* an attempt that timed out below the ceiling is followed by the next attempt,
\* whatever its abandoned call does
C36_NextIssued ==
  \A p \in Providers, n \in AttemptIdx :
    (timer[p][n] = "fired" /\ n + 1 < attempts) => wrap[p][n + 1].st # "none"

\* a late success leaves the sequence as it is
C36_Step ==
  \A p \in Providers, n \in AttemptIdx :
    (~C36_Late(p, n) /\ C36_Late(p, n)') =>
       (wrap' = wrap /\ ret' = ret /\ calls' = calls /\ results' = results)

C36_NeverRescues == [](C36_DecidedInTime /\ C36_NextIssued) /\ [][C36_Step]_vars

\* the sequence made its three attempts and failed, and the response says so,
\* although the abandoned call of the second attempt has succeeded
C36_Witness ==
  \E p \in Providers :
    /\ calls[p] = 3
    /\ C36_Late(p, 1)
    /\ ret[p].st = "fulfilled" /\ ~ret[p].v.ok
    /\ res.status = 200 /\ ~res.json[p].ok

(***************************************************************************)
(* C37: bounded response of /api/ask: for an accepted request, even if     *)
(* every adapter call of every requested provider never settles, the       *)
(* response is eventually sent, and each provider's retry sequence settles *)
(* after at most 3 consecutive per-attempt timeouts of that provider       *)
(* (3 x its effective timeoutMs); the request as a whole is bounded by the *)
(* largest such per-provider bound.                                        *)
(***************************************************************************)
\* the attempts of p that ended at their timeout
C37_TimedOut(p) == {n \in AttemptIdx : timer[p][n] = "fired"}

\* the time p's sequence has spent waiting for timers that fired
C37_Waited(p) == Cardinality(C37_TimedOut(p)) * tmo[p]

\* the bound of p: three times its effective timeout
C37_Bound(p) == 3 * (IF body.useModelConfig THEN cfgTimeout[p] ELSE DefaultTimeoutMs)

C37_Largest == CHOOSE b \in {C37_Bound(p) : p \in Submitted} :
                 \A q \in Submitted : C37_Bound(q) <= b

C37_SettlesWithinThree ==
  \A p \in Submitted :
    /\ C37_Waited(p) <= C37_Bound(p)
    /\ C37_Waited(p) <= C37_Largest
    /\ Cardinality(C37_TimedOut(p)) = 3 => ret[p].st = "fulfilled"
    /\ ret[p].st = "fulfilled" => calls[p] <= 3

C37_BoundedResponse ==
  /\ [](pc # "idle" => C37_SettlesWithinThree)
  /\ (pc = "awaiting") ~> (pc = "done" /\ res.status = 200)
  /\ \A p \in Providers : (ret[p].st = "pending") ~> (ret[p].st = "fulfilled")

\* the response was sent although no adapter call of the two providers ever settled:
\* each sequence ended at its third timeout
C37_Witness ==
  /\ pc = "done" /\ res.status = 200
  /\ Cardinality(Submitted) = 2
  /\ \A p \in Submitted :
       /\ \A n \in 0 .. 2 : op[p][n] = "inflight" /\ timer[p][n] = "fired"
       /\ C37_Waited(p) = C37_Bound(p)
       /\ ~res.json[p].ok
  /\ \E p, q \in Submitted : C37_Bound(p) < C37_Bound(q)

(***************************************************************************)
(* C38: history resolution of the streaming path differs from /api/ask for *)
(* the same inputs: /api/stream uses histories[modelId] when modelId is a  *)
(* string and that entry is a sequence, and only otherwise                 *)
(* histories.openai (else an empty transcript), and it never consults the  *)
(* legacy model1/model2/model3 slots or the shared legacy history; so when *)
(* both histories.openai and histories[modelId] are sequences, /api/stream *)
(* sends the modelId transcript whereas /api/ask sends the provider-keyed  *)
(* one.                                                                    *)
(***************************************************************************)
\* histories[modelId] is there for the taking
C38_CardHistory ==
  /\ context.modelId.type = "string"
  /\ context.modelId.key \in HistKeys
  /\ context.histories[context.modelId.key].kind = "array"

\* the turns /api/stream takes into its messages
C38_StreamTurns == IF streamHist.kind = "array" THEN streamHist.items ELSE <<>>

\* both handlers have resolved their history
C38_BothResolved == pc # "idle" /\ creates > 0

C38_StreamResolution ==
  creates > 0 =>
    /\ C38_CardHistory => streamHist = context.histories[context.modelId.key]
    /\ (~C38_CardHistory /\ context.histories["openai"].kind = "array") =>
          streamHist = context.histories["openai"]
    /\ (~C38_CardHistory /\ context.histories["openai"].kind # "array") =>
          C38_StreamTurns = <<>>

C38_Differs ==
  C38_BothResolved =>
    /\ (C38_CardHistory /\ context.histories["openai"].kind = "array") =>
          /\ streamHist = context.histories[context.modelId.key]
          /\ hist["openai"] = context.histories["openai"]
    /\ (/\ ~C38_CardHistory
        /\ context.histories["openai"].kind # "array"
        /\ \E i \in 1 .. 3 : context.histories[LegacySlots[i]].kind = "array") =>
          /\ C38_StreamTurns = <<>>
          /\ hist["openai"] = JArray(Combined)

C38_StreamHistory == C38_StreamResolution /\ C38_Differs

\* both handlers ran on a request whose histories.openai and histories[modelId] are
\* different sequences, and took different transcripts
C38_Witness ==
  /\ C38_BothResolved
  /\ C38_CardHistory
  /\ context.histories["openai"] = JArray(<<"o1">>)
  /\ streamHist = JArray(<<"b1">>)
  /\ hist["openai"] = JArray(<<"o1">>)

(***************************************************************************)
(* C39: the command line path (index.js main): each enabled and            *)
(* credentialed provider is called exactly once, wrapped in a single       *)
(* per-provider timeout with no retry; an enabled provider whose           *)
(* credential is missing is silently absent from the results (no failure   *)
(* outcome is recorded for it); and the results are printed only after     *)
(* every started provider call has settled or timed out.                   *)
(***************************************************************************)
\* the providers the command line enables, with and without their credential
C39_Credentialed == {p \in Providers : argv.flags[p] /\ hasKey[p]}
C39_Uncredentialed == {p \in Providers : argv.flags[p] /\ ~hasKey[p]}

\* main is past its synchronous part
C39_Running == cliPc \in {"awaiting", "printed"}

C39_OnceEach ==
  C39_Running =>
    \A p \in Providers :
      /\ cliCalls[p] = (IF p \in C39_Credentialed THEN 1 ELSE 0)
      /\ p \in C39_Credentialed <=> cliTimer[p] # "none"
      \* a timeout is the provider's outcome: nothing is tried again
      /\ cliTimer[p] = "fired" =>
           /\ p \in DOMAIN cliResults
           /\ ~cliResults[p].ok
           /\ cliResults[p].error = <<"timed out after", Label(p), DefaultTimeoutMs>>

C39_SilentlyAbsent ==
  \A p \in Providers :
    p \notin C39_Credentialed => (p \notin DOMAIN cliResults /\ p \notin DOMAIN printed.json)

C39_PrintedAfterAll ==
  printed.done =>
    /\ DOMAIN printed.json = C39_Credentialed
    /\ \A p \in C39_Credentialed :
         /\ cliTimer[p] \in {"fired", "cleared"}
         /\ cliWrap[p].st = "fulfilled"
         /\ printed.json[p] = cliResults[p]

C39_CommandLine == C39_OnceEach /\ C39_SilentlyAbsent /\ C39_PrintedAfterAll

\* the three providers were enabled: OpenAI answered, Claude timed out with its call
\* still in flight, Gemini has no credential; the results were printed without Gemini
C39_Witness ==
  /\ printed.done
  /\ argv.flags = [p \in Providers |-> TRUE]
  /\ ~hasKey["gemini"]
  /\ DOMAIN printed.json = {"openai", "claude"}
  /\ printed.json["openai"].ok
  /\ cliTimer["claude"] = "fired" /\ cliOp["claude"] = "inflight" /\ cliCalls["claude"] = 1
  /\ ~printed.json["claude"].ok

=============================================================================
